---- MODULE Spec2Model ----
(***************************************************************************)
(* pydep: multi-source dependency aggregation, per-source removal and the  *)
(* removal routers (src/app.py, src/ecosystems/*.py).                      *)
(*                                                                         *)
(* Text is modelled by TLA+ strings, read character by character with      *)
(* SubSeq/Len, so parsing, normalisation and line filtering are computed   *)
(* as the code computes them.                                              *)
(***************************************************************************)
EXTENDS Integers, Sequences, FiniteSets, TLC

VARIABLES fs, venv, uv, ret, calls, ui

vars == <<fs, venv, uv, ret, calls, ui>>

(***************************************************************************)
(* Characters and strings                                                  *)
(***************************************************************************)
Lowers == "abcdefghijklmnopqrstuvwxyz"
Uppers == "ABCDEFGHIJKLMNOPQRSTUVWXYZ"
Digits == "0123456789"
\* the ASCII characters used in names, in code-point order (for str comparison)
Ascii == " !#$%&*+,-./0123456789:;<=>?@ABCDEFGHIJKLMNOPQRSTUVWXYZ[]^_abcdefghijklmnopqrstuvwxyz{|}~"

Ch(s, i) == SubSeq(s, i, i)
CharsOf(s) == {Ch(s, i) : i \in 1..Len(s)}
From(s, i) == SubSeq(s, i, Len(s))

AlnumChars == CharsOf(Lowers) \cup CharsOf(Uppers) \cup CharsOf(Digits)
SepChars == {"-", "_", "."}
NameChars == AlnumChars \cup SepChars
WsChars == {" ", "\t"}
OpChars == {">", "<", "=", "!", "~"}
ValChars == AlnumChars \cup {".", "*", "+", "!", "_", "-"}

\* position of the first occurrence of character c in s, 0 if none
RECURSIVE IndexFrom(_, _, _)
IndexFrom(s, c, i) == IF i > Len(s) THEN 0
                      ELSE IF Ch(s, i) = c THEN i
                      ELSE IndexFrom(s, c, i + 1)
IndexIn(s, c) == IndexFrom(s, c, 1)

\* str.lower() of one character
LowerCh(c) == IF c \in CharsOf(Uppers) THEN Ch(Lowers, IndexIn(Uppers, c)) ELSE c

RECURSIVE Lower(_)
Lower(s) == IF s = "" THEN "" ELSE LowerCh(Ch(s, 1)) \o Lower(From(s, 2))

\* length of the longest prefix of s (from position i) whose characters are in cls
RECURSIVE RunLen(_, _, _)
RunLen(s, i, cls) == IF i > Len(s) \/ Ch(s, i) \notin cls THEN 0
                     ELSE 1 + RunLen(s, i + 1, cls)

\* str.strip() / lstrip / rstrip on whitespace
LStrip(s) == From(s, 1 + RunLen(s, 1, WsChars))
RECURSIVE RStrip(_)
RStrip(s) == IF s # "" /\ Ch(s, Len(s)) \in WsChars THEN RStrip(SubSeq(s, 1, Len(s) - 1)) ELSE s
Strip(s) == RStrip(LStrip(s))

StartsWith(s, p) == Len(s) >= Len(p) /\ SubSeq(s, 1, Len(p)) = p

\* position of the first occurrence of character c at or after i, 0 if none
RECURSIVE FindCh(_, _, _)
FindCh(s, c, i) == IF i > Len(s) THEN 0
                   ELSE IF Ch(s, i) = c THEN i
                   ELSE FindCh(s, c, i + 1)

\* str < str, by code point
Ord(c) == IndexIn(Ascii, c)
RECURSIVE StrLess(_, _)
StrLess(a, b) == IF b = "" THEN FALSE
                 ELSE IF a = "" THEN TRUE
                 ELSE IF Ch(a, 1) = Ch(b, 1) THEN StrLess(From(a, 2), From(b, 2))
                 ELSE Ord(Ch(a, 1)) < Ord(Ch(b, 1))

RECURSIVE JoinLines(_)
JoinLines(ls) == IF ls = <<>> THEN ""
                 ELSE IF Len(ls) = 1 THEN ls[1]
                 ELSE ls[1] \o "\n" \o JoinLines(Tail(ls))

(***************************************************************************)
(* Identity normaliser and dependency-string grammar                       *)
(***************************************************************************)
\* re.sub(r"[-_.]+", "-", name).lower()
RECURSIVE SubSeps(_)
SubSeps(s) == IF s = "" THEN ""
              ELSE IF Ch(s, 1) \in SepChars
                   THEN "-" \o SubSeps(From(s, 1 + RunLen(s, 1, SepChars)))
                   ELSE Ch(s, 1) \o SubSeps(From(s, 2))

_normalise_sepfirst(name) == Lower(IF name # "" /\ Ch(name, 1) \in SepChars
                                   THEN SubSeps(From(name, 2)) ELSE SubSeps(name))
_normalise_nolower(name) == SubSeps(name)
_normalise(name) == Lower(SubSeps(name))

SkipWs(s, i) == i + RunLen(s, i, WsChars)

\* in (?:[><=!~]+\s*[A-Za-z0-9.*+!_-]+\s*,?\s*) at position i, an operator run
\* of k characters is followed, after whitespace, by a value character
OpOk(s, i, k) == SkipWs(s, i + k) <= Len(s) /\ Ch(s, SkipWs(s, i + k)) \in ValChars
\* the rest of the iteration from its value at j: value, \s*, ",", \s*
SpecTail(s, e) == SkipWs(s, IF e <= Len(s) /\ Ch(s, e) = "," THEN e + 1 ELSE e)

\* the operator run gives characters back until a value character follows
OpLen(s, i) == CHOOSE k \in 1..RunLen(s, i, OpChars) :
                  OpOk(s, i, k) /\ \A k2 \in (k+1)..RunLen(s, i, OpChars) : ~OpOk(s, i, k2)
ValEnd(s, j) == j + RunLen(s, j, ValChars)

\* one iteration at position i: the position after it, or 0 when it does not match
SpecIter(s, i) ==
    IF ~\E k \in 1..RunLen(s, i, OpChars) : OpOk(s, i, k) THEN 0
    ELSE SpecTail(s, SkipWs(s, ValEnd(s, SkipWs(s, i + OpLen(s, i)))))

RECURSIVE SpecEnd(_, _)
SpecEnd(s, i) == IF SpecIter(s, i) = 0 THEN i ELSE SpecEnd(s, SpecIter(s, i))

NoDep == [ok |-> FALSE, name |-> "", spec |-> ""]

\* the groups of a _DEP_RE match: name raw[b..a-1], the specifier run starting
\* at s; the result is name and (spec.strip() or "*")
OrStar(sp) == IF sp = "" THEN "*" ELSE sp
DepGroups(raw, b, a, s) ==
    [ok |-> TRUE, name |-> SubSeq(raw, b, a - 1),
     spec |-> OrStar(Strip(SubSeq(raw, s, SpecEnd(raw, s) - 1)))]

\* after the name ending before a: \s*(?:\[.*?\])?\s*
DepName(raw, b, a) ==
    DepGroups(raw, b, a,
              SkipWs(raw, IF a <= Len(raw) /\ Ch(raw, a) = "[" /\ FindCh(raw, "]", a + 1) # 0
                          THEN FindCh(raw, "]", a + 1) + 1 ELSE a))

\* _DEP_RE.match(raw): ^\s*([A-Za-z0-9](?:[A-Za-z0-9._-]*[A-Za-z0-9])?), the name
\* ending on its last alphanumeric character
_parse_dep_string(raw) ==
    LET b == 1 + RunLen(raw, 1, WsChars)
    IN  IF b > Len(raw) \/ Ch(raw, b) \notin AlnumChars THEN NoDep
        ELSE DepName(raw, b,
                     b + CHOOSE n \in 1..RunLen(raw, b, NameChars) :
                           /\ Ch(raw, b + n - 1) \in AlnumChars
                           /\ \A n2 \in (n+1)..RunLen(raw, b, NameChars) :
                                  Ch(raw, b + n2 - 1) \notin AlnumChars)

(***************************************************************************)
(* Parsed TOML / JSON / literal values: tagged, tables keep insertion order*)
(***************************************************************************)
S(s) == [t |-> "str", v |-> s]
N(n) == [t |-> "int", v |-> <<n>>]
A(items) == [t |-> "array", v |-> items]
KV(k, x) == [k |-> k, x |-> x]
T(pairs) == [t |-> "table", v |-> pairs]

IsStr(x) == x.t = "str"
IsTable(x) == x.t = "table"

HasKey(tbl, key) == \E i \in 1..Len(tbl.v) : tbl.v[i].k = key
\* dict.get(key, default)
Get(tbl, key, default) ==
    IF HasKey(tbl, key) THEN tbl.v[CHOOSE i \in 1..Len(tbl.v) : tbl.v[i].k = key].x
    ELSE default

\* what "for raw in x" iterates over: the items of a list, the characters of a
\* str, the keys of a dict; anything else is not iterable (TypeError)
Iterable(x) == x.t \in {"array", "str", "table"}
IterItems(x) == IF x.t = "array" THEN x.v
                ELSE IF x.t = "str" THEN [i \in 1..Len(x.v) |-> S(Ch(x.v, i))]
                ELSE [i \in 1..Len(x.v) |-> S(x.v[i].k)]

\* outcome of a call: a value, or an exception raised to the caller
Ok(v) == [exc |-> FALSE, out |-> v]
Raised == [exc |-> TRUE, out |-> <<>>]

Triple(name, spec, label) == [name |-> name, spec |-> spec, label |-> label]

RECURSIVE Flatten(_)
Flatten(ss) == IF ss = <<>> THEN <<>> ELSE Head(ss) \o Flatten(Tail(ss))

\* file contents: st is "missing", "unreadable", "badsyntax" or "ok"
\* (data: the value a structured file decodes to; text: the bytes of a text file)
Missing == [st |-> "missing", data |-> T(<<>>), text |-> ""]
Unreadable == [st |-> "unreadable", data |-> T(<<>>), text |-> ""]
BadSyntax == [st |-> "badsyntax", data |-> T(<<>>), text |-> ""]
Doc(d) == [st |-> "ok", data |-> d, text |-> ""]
Text(txt) == [st |-> "ok", data |-> T(<<>>), text |-> txt]

\* str.splitlines() for "\n" line ends
RECURSIVE SplitLines(_)
\* the first line ends before position nl (0: there is no line end)
SplitAt(txt, nl) ==
    IF nl = 0 THEN <<txt>>
    ELSE <<SubSeq(txt, 1, nl - 1)>> \o SplitLines(From(txt, nl + 1))
SplitLines(txt) == IF txt = "" THEN <<>> ELSE SplitAt(txt, FindCh(txt, "\n", 1))

StripEach(ls) == [i \in 1..Len(ls) |-> Strip(ls[i])]

(***************************************************************************)
(* uv.lock and pyproject.toml parsers                                      *)
(***************************************************************************)
\* the loop body of _parse_lock for one record, as [exc, has, name, version]
LockRecord(pkg) ==
    IF ~IsTable(pkg) THEN [exc |-> TRUE, has |-> FALSE, name |-> "", version |-> ""]
    ELSE LET n == Get(pkg, "name", S(""))
             v == Get(pkg, "version", S(""))
         IN  IF ~IsStr(n) THEN [exc |-> TRUE, has |-> FALSE, name |-> "", version |-> ""]
             ELSE [exc |-> FALSE,
                   has |-> _normalise(n.v) # "" /\ v # S("") /\ v # N(0),
                   name |-> _normalise(n.v),
                   version |-> IF IsStr(v) THEN v.v ELSE "?"]

\* {normalised_name: version} as a sequence of records, a later record of the
\* same name replacing the earlier one
RECURSIVE LockFold(_, _)
LockFold(recs, acc) ==
    IF recs = <<>> THEN acc
    ELSE LET r == Head(recs)
             rest == SelectSeq(acc, LAMBDA e : e.name # r.name)
         IN  LockFold(Tail(recs), IF r.has THEN Append(rest, [name |-> r.name, version |-> r.version]) ELSE acc)

_parse_lock(f) ==
    IF f.st # "ok" THEN Ok(<<>>)
    ELSE LET pk == Get(f.data, "package", A(<<>>))
         IN  IF ~Iterable(pk) THEN Raised
             ELSE LET recs == [i \in 1..Len(IterItems(pk)) |-> LockRecord(IterItems(pk)[i])]
                  IN  IF \E i \in 1..Len(recs) : recs[i].exc THEN Raised
                      ELSE Ok(LockFold(recs, <<>>))

LockGet(lock_map, key) ==
    IF \E i \in 1..Len(lock_map) : lock_map[i].name = key
    THEN lock_map[CHOOSE i \in 1..Len(lock_map) : lock_map[i].name = key].version
    ELSE ""

\* the dependency triples of the strings that _DEP_RE matches
TriplesOf(strs, label) ==
    LET AsTriples(ms) == [i \in 1..Len(ms) |-> Triple(ms[i].name, ms[i].spec, label)]
    IN  AsTriples(SelectSeq([i \in 1..Len(strs) |-> _parse_dep_string(strs[i])],
                            LAMBDA m : m.ok))

StrsOf(items) == [i \in 1..Len(items) |-> items[i].v]

\* "for raw in deps: parsed = _parse_dep_string(raw); if parsed: append":
\* strict raises on a non-str item (re.match TypeError), otherwise it is skipped
DepLoop(deps, label, strict) ==
    IF ~Iterable(deps) THEN Raised
    ELSE IF strict /\ \E i \in 1..Len(IterItems(deps)) : ~IsStr(IterItems(deps)[i])
    THEN Raised
    ELSE Ok(TriplesOf(StrsOf(SelectSeq(IterItems(deps), IsStr)), label))

\* the outcomes of consecutive loops: the first exception propagates
AllOk(rs) == IF \E i \in 1..Len(rs) : rs[i].exc THEN Raised
             ELSE Ok(Flatten([i \in 1..Len(rs) |-> rs[i].out]))

\* "for group_name, deps in groups.items(): ..." with label "<file> [<group>]"
GroupLoop(groups, label, strict) ==
    IF ~IsTable(groups) THEN Raised
    ELSE AllOk([i \in 1..Len(groups.v) |->
                  DepLoop(groups.v[i].x, label \o " [" \o groups.v[i].k \o "]", strict)])

\* tomllib.load failures are caught; the walk over the decoded document is not
_parse_pyproject(f) ==
    IF f.st # "ok" THEN Ok(<<>>)
    ELSE IF ~IsTable(Get(f.data, "project", T(<<>>))) THEN Raised
    ELSE AllOk(<<DepLoop(Get(Get(f.data, "project", T(<<>>)), "dependencies", A(<<>>)),
                         "pyproject.toml", TRUE),
                 GroupLoop(Get(Get(f.data, "project", T(<<>>)), "optional-dependencies", T(<<>>)),
                           "pyproject.toml", TRUE),
                 GroupLoop(Get(f.data, "dependency-groups", T(<<>>)), "pyproject.toml", FALSE)>>)

(***************************************************************************)
(* requirements*.txt and setup.py parsers                                  *)
(***************************************************************************)
\* "if not line or line.startswith('#') or line.startswith('-'): continue"
ReqSkipped(stripped) == stripped = "" \/ StartsWith(stripped, "#") \/ StartsWith(stripped, "-")
ReqSkipped_noflag(stripped) == stripped = "" \/ StartsWith(stripped, "#")

\* f is the file at path, label its name (path.name)
_parse_requirements(f, label) ==
    IF f.st # "ok" THEN Ok(<<>>)
    ELSE Ok(TriplesOf(SelectSeq(StripEach(SplitLines(f.text)), LAMBDA l : ~ReqSkipped(l)),
                      label))

\* setup.py is held as its ast.Call nodes in ast.walk order, each a table of
\* keyword arguments; a keyword value is a literal (str, int, array for a list
\* or tuple literal) or [t |-> "expr"] for anything ast.literal_eval rejects
Expr == [t |-> "expr", v |-> <<>>]
SetupKw(call) ==
    LET kws == SelectSeq(call.v, LAMBDA kw : kw.k = "install_requires" /\ kw.x.t = "array")
    IN  Flatten([i \in 1..Len(kws) |->
            TriplesOf(StrsOf(SelectSeq(kws[i].x.v, IsStr)), "setup.py")])

_parse_setup_py(f) ==
    IF f.st # "ok" THEN Ok(<<>>)
    ELSE Ok(Flatten([i \in 1..Len(f.data.v) |-> SetupKw(f.data.v[i])]))

(***************************************************************************)
(* configparser.ConfigParser as used on setup.cfg: read, get, set, write   *)
(***************************************************************************)
RECURSIVE RStripNl(_)
RStripNl(s) == IF s # "" /\ Ch(s, Len(s)) \in (WsChars \cup {"\n"})
               THEN RStripNl(SubSeq(s, 1, Len(s) - 1)) ELSE s

LastCh(s, c) == IF \E j \in 1..Len(s) : Ch(s, j) = c
                THEN CHOOSE j \in 1..Len(s) : Ch(s, j) = c /\ \A k \in (j+1)..Len(s) : Ch(s, k) # c
                ELSE 0

\* position of the first "=" or ":" of a line, 0 if none
DelimPos(v) == IF \E j \in 1..Len(v) : Ch(v, j) \in {"=", ":"}
               THEN CHOOSE j \in 1..Len(v) : Ch(v, j) \in {"=", ":"}
                       /\ \A k \in 1..(j-1) : Ch(v, k) \notin {"=", ":"}
               ELSE 0

CfgEmpty == [sections |-> <<>>, cur |-> 0, opt |-> "", indent |-> 0, err |-> FALSE]

SectIndex(sections, name) ==
    IF \E i \in 1..Len(sections) : sections[i].name = name
    THEN CHOOSE i \in 1..Len(sections) : sections[i].name = name
    ELSE 0

OptIndex(opts, key) ==
    IF \E i \in 1..Len(opts) : opts[i].key = key
    THEN CHOOSE i \in 1..Len(opts) : opts[i].key = key
    ELSE 0

\* cursect[optname].append(v)
CfgAppendVal(c, v) ==
    [c EXCEPT !.sections[c.cur].opts[OptIndex(c.sections[c.cur].opts, c.opt)].vals = Append(@, v)]

\* a section header; a repeated section is DuplicateSectionError
CfgSection(c, name, cur_indent) ==
    IF SectIndex(c.sections, name) # 0 THEN [c EXCEPT !.err = TRUE]
    ELSE [c EXCEPT !.sections = Append(@, [name |-> name, opts |-> <<>>]),
                   !.cur = Len(c.sections) + 1, !.opt = "", !.indent = cur_indent]

\* an option line; an empty or repeated key is ParsingError / DuplicateOptionError
CfgOption(c, key, val, cur_indent) ==
    IF key = "" \/ OptIndex(c.sections[c.cur].opts, key) # 0 THEN [c EXCEPT !.err = TRUE]
    ELSE [c EXCEPT !.sections[c.cur].opts = Append(@, [key |-> key, vals |-> <<val>>]),
                   !.opt = key, !.indent = cur_indent]

\* a full-line comment ("#" or ";" prefix)
IsComment(stripped) == StartsWith(stripped, "#") \/ StartsWith(stripped, ";")

\* one iteration of the line loop of RawConfigParser._read, value being the
\* stripped line ("" for a comment) and cur_indent its indentation
CfgStep(c, value, comment, cur_indent) ==
    IF value = ""
    THEN IF ~comment /\ c.cur # 0 /\ c.opt # "" THEN CfgAppendVal(c, "") ELSE c
    ELSE IF c.cur # 0 /\ c.opt # "" /\ cur_indent > c.indent
    THEN CfgAppendVal(c, value)
    ELSE IF Ch(value, 1) = "[" /\ LastCh(value, "]") > 2
    THEN CfgSection(c, SubSeq(value, 2, LastCh(value, "]") - 1), cur_indent)
    ELSE IF c.cur = 0 THEN [c EXCEPT !.err = TRUE]              \* MissingSectionHeaderError
    ELSE IF DelimPos(value) = 0 THEN [c EXCEPT !.err = TRUE]    \* ParsingError
    ELSE CfgOption(c, Lower(RStrip(SubSeq(value, 1, DelimPos(value) - 1))),
                   Strip(From(value, DelimPos(value) + 1)), cur_indent)

CfgLine(c, line) ==
    IF c.err THEN c
    ELSE CfgStep(c, IF IsComment(Strip(line)) THEN "" ELSE Strip(line),
                 IsComment(Strip(line)), RunLen(line, 1, WsChars))

RECURSIVE CfgFold(_, _)
CfgFold(c, ls) == IF ls = <<>> THEN c ELSE CfgFold(CfgLine(c, Head(ls)), Tail(ls))

\* the parser's sections once read: each option value joined and right-stripped
CfgJoin(c) ==
    IF c.err THEN [exc |-> TRUE, sections |-> <<>>]
    ELSE [exc |-> FALSE,
          sections |-> [i \in 1..Len(c.sections) |->
             [name |-> c.sections[i].name,
              opts |-> [j \in 1..Len(c.sections[i].opts) |->
                 [key |-> c.sections[i].opts[j].key,
                  val |-> RStripNl(JoinLines(c.sections[i].opts[j].vals))]]]]]

\* cfg.read(path): [exc, sections]; a file that cannot be opened is skipped silently
CfgRead(f) ==
    IF f.st # "ok" THEN [exc |-> FALSE, sections |-> <<>>]
    ELSE CfgJoin(CfgFold(CfgEmpty, SplitLines(f.text)))

\* BasicInterpolation on a value that holds no %(name)s reference: "%%"
\* stands for "%", any other "%" is InterpolationSyntaxError
Prepend(c, r) == IF r.exc THEN r ELSE Ok(c \o r.out)
RECURSIVE Interpolate(_)
Interpolate(v) ==
    IF v = "" THEN Ok("")
    ELSE IF Ch(v, 1) # "%" THEN Prepend(Ch(v, 1), Interpolate(From(v, 2)))
    ELSE IF Len(v) >= 2 /\ Ch(v, 2) = "%" THEN Prepend("%", Interpolate(From(v, 3)))
    ELSE Raised

\* cfg.get(section, option, fallback=""): the section's own value, else
\* DEFAULT's, interpolated; the fallback when the section or option is absent
CfgGet(sections, section, option) ==
    IF SectIndex(sections, section) = 0 THEN Ok("")
    ELSE IF OptIndex(sections[SectIndex(sections, section)].opts, option) # 0
    THEN Interpolate(sections[SectIndex(sections, section)].opts[
                         OptIndex(sections[SectIndex(sections, section)].opts, option)].val)
    ELSE IF SectIndex(sections, "DEFAULT") # 0
            /\ OptIndex(sections[SectIndex(sections, "DEFAULT")].opts, option) # 0
    THEN Interpolate(sections[SectIndex(sections, "DEFAULT")].opts[
                         OptIndex(sections[SectIndex(sections, "DEFAULT")].opts, option)].val)
    ELSE Ok("")

\* cfg.set(section, option, value) on an existing section
CfgSetOption(opts, option, value) ==
    IF OptIndex(opts, option) = 0 THEN Append(opts, [key |-> option, val |-> value])
    ELSE [j \in 1..Len(opts) |->
            IF j = OptIndex(opts, option) THEN [key |-> option, val |-> value] ELSE opts[j]]

CfgSet(sections, section, option, value) ==
    [i \in 1..Len(sections) |->
        IF i = SectIndex(sections, section)
        THEN [name |-> section, opts |-> CfgSetOption(sections[i].opts, option, value)]
        ELSE sections[i]]

\* value.replace("\n", "\n\t")
RECURSIVE TabContinuation(_)
TabContinuation(v) == IF v = "" THEN ""
                      ELSE IF Ch(v, 1) = "\n" THEN "\n\t" \o TabContinuation(From(v, 2))
                      ELSE Ch(v, 1) \o TabContinuation(From(v, 2))

RECURSIVE ConcatAll(_)
ConcatAll(strs) == IF strs = <<>> THEN "" ELSE Head(strs) \o ConcatAll(Tail(strs))

CfgWriteSection(sec) ==
    "[" \o sec.name \o "]\n"
    \o ConcatAll([j \in 1..Len(sec.opts) |->
                    sec.opts[j].key \o " = " \o TabContinuation(sec.opts[j].val) \o "\n"])
    \o "\n"

\* cfg.write(fh): the DEFAULT section first, then every section in order
CfgWrite(sections) ==
    LET defaults == SelectSeq(sections, LAMBDA sec : sec.name = "DEFAULT" /\ sec.opts # <<>>)
        others == SelectSeq(sections, LAMBDA sec : sec.name # "DEFAULT")
    IN  ConcatAll([i \in 1..Len(defaults) |-> CfgWriteSection(defaults[i])])
        \o ConcatAll([i \in 1..Len(others) |-> CfgWriteSection(others[i])])

\* raw.strip().splitlines(), each line stripped, blank lines dropped
CfgLines(raw) == SelectSeq(StripEach(SplitLines(RStripNl(raw))), LAMBDA l : l # "")

\* the read is guarded, the cfg.get after it is not
InstallRequires(got, label) == IF got.exc THEN Raised ELSE Ok(TriplesOf(CfgLines(got.out), label))
OptionsOf(cfg, label) ==
    IF cfg.exc THEN Ok(<<>>)
    ELSE InstallRequires(CfgGet(cfg.sections, "options", "install_requires"), label)
_parse_setup_cfg(f) == IF f.st = "missing" THEN Ok(<<>>) ELSE OptionsOf(CfgRead(f), "setup.cfg")

(***************************************************************************)
(* tomllib.load on a Pipfile: the line-oriented TOML subset of the model's *)
(* Pipfiles (full-line comments, [table] headers, key = value lines with   *)
(* bare or quoted keys, string / integer / boolean values and inline       *)
(* tables of at most one member); anything else is taken as a decode error *)
(***************************************************************************)
BareKeyChars == AlnumChars \cup {"_", "-"}
IsBareKey(k) == k # "" /\ \A i \in 1..Len(k) : Ch(k, i) \in BareKeyChars
IsQuoted(k) == Len(k) >= 2 /\ Ch(k, 1) = "\"" /\ Ch(k, Len(k)) = "\""
                  /\ \A i \in 2..(Len(k) - 1) : Ch(k, i) \notin {"\"", "\\"}
Unquote(k) == SubSeq(k, 2, Len(k) - 1)
IsInt(v) == v # "" /\ \A i \in 1..Len(v) : Ch(v, i) \in CharsOf(Digits)

\* a key, "" when malformed
TomlKey(k) == IF IsBareKey(k) THEN k ELSE IF IsQuoted(k) THEN Unquote(k) ELSE ""

TomlBad == [t |-> "bad", v |-> <<>>]

\* a scalar value
TomlScalar(v) == IF IsQuoted(v) THEN S(Unquote(v))
                 ELSE IF IsInt(v) THEN N(0)
                 ELSE IF v \in {"true", "false"} THEN [t |-> "bool", v |-> <<v>>]
                 ELSE TomlBad

\* the inside of "{ k = scalar }" or "{}"
TomlMember(k, x) == IF ~IsBareKey(k) \/ x = TomlBad THEN TomlBad ELSE T(<<KV(k, x)>>)
TomlInline(body) ==
    IF body = "" THEN T(<<>>)
    ELSE IF FindCh(body, "=", 1) = 0 THEN TomlBad
    ELSE TomlMember(RStrip(SubSeq(body, 1, FindCh(body, "=", 1) - 1)),
                    TomlScalar(LStrip(From(body, FindCh(body, "=", 1) + 1))))

TomlValue(v) ==
    IF Len(v) >= 2 /\ Ch(v, 1) = "{" /\ Ch(v, Len(v)) = "}"
    THEN TomlInline(Strip(SubSeq(v, 2, Len(v) - 1)))
    ELSE TomlScalar(v)

KeyIndex(tbl, key) == CHOOSE i \in 1..Len(tbl.v) : tbl.v[i].k = key

\* "[name]": a new table, an error when the name is already defined
TomlHeader(c, name) ==
    IF ~IsBareKey(name) \/ HasKey(c.data, name) THEN [c EXCEPT !.err = TRUE]
    ELSE [c EXCEPT !.data = T(Append(@.v, KV(name, T(<<>>)))), !.cur = name]

\* "key = value" in the current table, an error when the key is already defined
TomlAssign(c, key, x) ==
    IF key = "" \/ x = TomlBad THEN [c EXCEPT !.err = TRUE]
    ELSE IF c.cur = ""
    THEN IF HasKey(c.data, key) THEN [c EXCEPT !.err = TRUE]
         ELSE [c EXCEPT !.data = T(Append(@.v, KV(key, x)))]
    ELSE IF HasKey(Get(c.data, c.cur, T(<<>>)), key) THEN [c EXCEPT !.err = TRUE]
    ELSE [c EXCEPT !.data = T([@.v EXCEPT ![KeyIndex(c.data, c.cur)].x =
                                              T(Append(@.v, KV(key, x)))])]

TomlStep(c, l) ==
    IF l = "" \/ StartsWith(l, "#") THEN c
    ELSE IF StartsWith(l, "[")
    THEN IF Len(l) < 3 \/ Ch(l, Len(l)) # "]" THEN [c EXCEPT !.err = TRUE]
         ELSE TomlHeader(c, Strip(SubSeq(l, 2, Len(l) - 1)))
    ELSE IF FindCh(l, "=", 1) = 0 THEN [c EXCEPT !.err = TRUE]
    ELSE TomlAssign(c, TomlKey(RStrip(SubSeq(l, 1, FindCh(l, "=", 1) - 1))),
                    TomlValue(LStrip(From(l, FindCh(l, "=", 1) + 1))))

RECURSIVE TomlFold(_, _)
TomlFold(c, ls) ==
    IF ls = <<>> THEN [exc |-> c.err, data |-> c.data]
    ELSE TomlFold(IF c.err THEN c ELSE TomlStep(c, Strip(Head(ls))), Tail(ls))

TomlLoad(text) == TomlFold([data |-> T(<<>>), cur |-> "", err |-> FALSE], SplitLines(text))

\* one "for name, ver in pkgs.items()" entry; the specifier of a non-str
\* "version" member is carried as "?"
PipfileSpec(ver) ==
    IF IsStr(ver) THEN ver.v
    ELSE IF ~IsTable(ver) THEN "*"
    ELSE IF IsStr(Get(ver, "version", S("*"))) THEN Get(ver, "version", S("*")).v
    ELSE "?"

PipfileSection(pkgs) ==
    IF ~IsTable(pkgs) THEN <<>>
    ELSE [i \in 1..Len(pkgs.v) |-> Triple(pkgs.v[i].k, PipfileSpec(pkgs.v[i].x), "Pipfile")]

_parse_pipfile(f) ==
    IF f.st # "ok" \/ TomlLoad(f.text).exc THEN Ok(<<>>)
    ELSE Ok(PipfileSection(Get(TomlLoad(f.text).data, "packages", T(<<>>)))
            \o PipfileSection(Get(TomlLoad(f.text).data, "dev-packages", T(<<>>))))

(***************************************************************************)
(* Aggregation: app.load_dependencies and PythonEcosystem.load_dependencies*)
(***************************************************************************)
DepSource(file, specifier) == [file |-> file, specifier |-> specifier]
Package(name, sources, installed_version) ==
    [name |-> name, sources |-> sources, installed_version |-> installed_version]

\* _parse_installed: the triples of "uv pip list", [] when uv is absent or fails
_parse_installed(env) ==
    IF env.st # "ok" THEN <<>>
    ELSE LET ps == SelectSeq(env.pkgs, LAMBDA p : p.name # "" /\ p.version # "")
         IN  [i \in 1..Len(ps) |-> Triple(ps[i].name, "==" \o ps[i].version, "venv")]

MergedIndex(merged, key) ==
    IF \E i \in 1..Len(merged) : merged[i].key = key
    THEN CHOOSE i \in 1..Len(merged) : merged[i].key = key
    ELSE 0

\* the key under which a triple is merged
MergeKey_raw(name) == name
MergeKey(name) == _normalise(name)

\* "dup = any(s.file == source_label and s.specifier == spec ...)"
IsDup_never(sources, label, spec) == FALSE
IsDup(sources, label, spec) ==
    \E i \in 1..Len(sources) : sources[i].file = label /\ sources[i].specifier = spec

\* the back-fill of installed_version from a "venv" triple
Backfill_never(pkg, tr) == pkg
Backfill_always(pkg, tr) ==
    IF tr.label = "venv" /\ StartsWith(tr.spec, "==")
    THEN [pkg EXCEPT !.installed_version = From(tr.spec, 3)] ELSE pkg
Backfill(pkg, tr) ==
    IF tr.label = "venv" /\ pkg.installed_version = "" /\ StartsWith(tr.spec, "==")
    THEN [pkg EXCEPT !.installed_version = From(tr.spec, 3)] ELSE pkg

\* "if key not in merged: merged[key] = Package(name, [], lock_map.get(key, ""))"
WithKey(merged, key, tr, lock_map) ==
    IF MergedIndex(merged, key) # 0 THEN merged
    ELSE Append(merged, [key |-> key, pkg |-> Package(tr.name, <<>>, LockGet(lock_map, key))])

\* "if not dup: pkg.sources.append(DepSource(file=source_label, specifier=spec))"
AddSource(pkg, tr) ==
    IF IsDup(pkg.sources, tr.label, tr.spec) THEN pkg
    ELSE [pkg EXCEPT !.sources = Append(@, DepSource(tr.label, tr.spec))]

\* one iteration of "for name, spec, source_label in raw"
MergeStep(merged, tr, lock_map, backfill) ==
    [WithKey(merged, MergeKey(tr.name), tr, lock_map) EXCEPT
        ![MergedIndex(WithKey(merged, MergeKey(tr.name), tr, lock_map), MergeKey(tr.name))].pkg =
            IF backfill THEN Backfill(AddSource(@, tr), tr) ELSE AddSource(@, tr)]

RECURSIVE MergeFold(_, _, _, _)
MergeFold(merged, raw, lock_map, backfill) ==
    IF raw = <<>> THEN merged
    ELSE MergeFold(MergeStep(merged, Head(raw), lock_map, backfill), Tail(raw), lock_map, backfill)

\* "key=lambda p: p.name.lower()"
SortKey_raw(p) == p.name
SortKey(p) == Lower(p.name)

\* sorted(..., key=...): a stable sort
RECURSIVE InsertSorted(_, _)
InsertSorted(sorted, p) ==
    IF sorted = <<>> THEN <<p>>
    ELSE IF StrLess(SortKey(p), SortKey(Head(sorted))) THEN <<p>> \o sorted
    ELSE <<Head(sorted)>> \o InsertSorted(Tail(sorted), p)

RECURSIVE SortByName(_)
SortByName(ps) == IF ps = <<>> THEN <<>>
                  ELSE InsertSorted(SortByName(SubSeq(ps, 1, Len(ps) - 1)), ps[Len(ps)])

\* "return sorted(merged.values(), key=...)"
PkgsOf(merged) == SortByName([i \in 1..Len(merged) |-> merged[i].pkg])

\* sorted(cwd.glob("requirements*.txt"))
ReqNames == <<"requirements-dev.txt", "requirements.txt">>

\* the outcomes of the five file parsers, in the order of the code
ParserResults(d) ==
    <<_parse_pyproject(d.pyproject)>>
    \o [i \in 1..Len(ReqNames) |-> _parse_requirements(d.reqs[ReqNames[i]], ReqNames[i])]
    \o <<_parse_setup_py(d.setup_py), _parse_setup_cfg(d.setup_cfg), _parse_pipfile(d.pipfile)>>

\* "raw.extend(...)" five times: an exception of a parser reaches the caller
RawTriples(d) == AllOk(ParserResults(d))

\* "merged: dict[str, Package] = {}": a call starts from an empty map, whatever map
\* (before) the call before it built
NewMerged_kept(before) == before
NewMerged(before) == <<>>

\* the merge by normalised name of raw (then extra) under the lock map: the map a
\* call builds, and the list it returns
Merged(before, raw, extra, lock, backfill) ==
    MergeFold(NewMerged(before), raw.out \o extra, lock.out, backfill)
MergeAfter(before, raw, extra, lock, backfill) ==
    IF raw.exc \/ lock.exc THEN Raised
    ELSE Ok(PkgsOf(Merged(before, raw, extra, lock, backfill)))
Merge(raw, extra, lock, backfill) == MergeAfter(<<>>, raw, extra, lock, backfill)

\* app.load_dependencies(installed)
load_dependencies(d, installed) == Merge(RawTriples(d), installed, _parse_lock(d.uv_lock), TRUE)

\* PythonEcosystem.load_dependencies(path)
PythonEcosystem_load_dependencies(d) == Merge(RawTriples(d), <<>>, _parse_lock(d.uv_lock), FALSE)

(***************************************************************************)
(* JavaScript and Go ecosystems                                            *)
(***************************************************************************)
JsGroups == <<"dependencies", "devDependencies", "peerDependencies", "optionalDependencies">>

IsAt(s, sub, i) == i + Len(sub) - 1 <= Len(s) /\ SubSeq(s, i, i + Len(sub) - 1) = sub
\* position of the last occurrence of sub in s, 0 if none
LastSub(s, sub) ==
    IF \E i \in 1..Len(s) : IsAt(s, sub, i)
    THEN CHOOSE i \in 1..Len(s) : IsAt(s, sub, i) /\ \A j \in (i+1)..Len(s) : ~IsAt(s, sub, j)
    ELSE 0
Contains(s, sub) == LastSub(s, sub) # 0

\* "if group in data": a key of a dict, an item of a list, a substring of a str
InData(data, group) ==
    IF data.t = "table" THEN HasKey(data, group)
    ELSE IF data.t = "array" THEN \E i \in 1..Len(data.v) : data.v[i] = S(group)
    ELSE Contains(data.v, group)

GroupEntries(deps, group) ==
    [j \in 1..Len(deps.v) |-> [name |-> deps.v[j].k, spec |-> deps.v[j].x, label |-> group]]

\* the triples (name, spec, group) of the groups present; spec is kept as
\* the JSON value; data[group].items() raises unless data[group] is a dict
GroupsOf(data, present) ==
    IF present # <<>> /\ ~IsTable(data) THEN Raised
    ELSE IF \E i \in 1..Len(present) : ~IsTable(Get(data, present[i], T(<<>>))) THEN Raised
    ELSE Ok(Flatten([i \in 1..Len(present) |->
                        GroupEntries(Get(data, present[i], T(<<>>)), present[i])]))

_parse_package_json(f) ==
    IF f.st # "ok" THEN Ok(<<>>)
    ELSE IF ~Iterable(f.data) THEN Raised
    ELSE GroupsOf(f.data, SelectSeq(JsGroups, LAMBDA g : InData(f.data, g)))

\* the name a "packages" key of package-lock.json stands for:
\* pkg_path.split("node_modules/")[-1], then name.split("/")[0]
FirstPart(name) == IF FindCh(name, "/", 1) # 0 THEN SubSeq(name, 1, FindCh(name, "/", 1) - 1)
                   ELSE name
LockPathName(pkg_path) ==
    FirstPart(From(pkg_path, LastSub(pkg_path, "node_modules/") + Len("node_modules/")))

\* dict assignment result[k] = x over a sequence of entries
PutPair(acc, k, x) ==
    IF \E j \in 1..Len(acc) : acc[j].k = k
    THEN [acc EXCEPT ![CHOOSE j \in 1..Len(acc) : acc[j].k = k].x = x]
    ELSE Append(acc, KV(k, x))
RECURSIVE AssignAll(_, _)
AssignAll(entries, acc) ==
    IF entries = <<>> THEN acc
    ELSE AssignAll(Tail(entries), PutPair(acc, Head(entries).k, Head(entries).x))

Truthy(x) == x \notin {S(""), N(0), T(<<>>), A(<<>>)}

\* info.get("version", "") of every entry
Versions(entries) ==
    [i \in 1..Len(entries) |-> KV(entries[i].k, Get(entries[i].x, "version", S("")))]
NodePaths(packages) == SelectSeq(packages.v, LAMBDA e : Contains(e.k, "node_modules/"))
Renamed(entries) == [i \in 1..Len(entries) |-> KV(LockPathName(entries[i].k), entries[i].x)]
FromPackages(packages) ==
    AssignAll(SelectSeq(Versions(Renamed(NodePaths(packages))),
                        LAMBDA e : e.k # "" /\ Truthy(e.x)), <<>>)

\* {name: version} out of "packages", else out of "dependencies"; versions
\* are kept as JSON values, and .items() / .get() raise on a non-dict
LockVersions(packages, deps) ==
    IF ~IsTable(packages) THEN Raised
    ELSE IF \E i \in 1..Len(NodePaths(packages)) : ~IsTable(NodePaths(packages)[i].x)
    THEN Raised
    ELSE IF FromPackages(packages) # <<>> THEN Ok(FromPackages(packages))
    ELSE IF ~IsTable(deps) \/ \E i \in 1..Len(deps.v) : ~IsTable(deps.v[i].x) THEN Raised
    ELSE Ok(AssignAll(SelectSeq(Versions(deps.v), LAMBDA e : Truthy(e.x)), <<>>))

_parse_package_lock(f) ==
    IF f.st # "ok" THEN Ok(<<>>)
    ELSE IF ~IsTable(f.data) THEN Raised
    ELSE LockVersions(Get(f.data, "packages", T(<<>>)), Get(f.data, "dependencies", T(<<>>)))

\* the merge loop of the JavaScript and Go loaders: keyed by the name as
\* written, every triple appended; tr.installed is the installed version
\* a new Package is created with
PlainStep(merged, tr) ==
    IF MergedIndex(merged, tr.name) = 0
    THEN Append(merged, [key |-> tr.name,
                         pkg |-> Package(tr.name, <<DepSource(tr.label, tr.spec)>>, tr.installed)])
    ELSE [merged EXCEPT ![MergedIndex(merged, tr.name)].pkg.sources =
                            Append(@, DepSource(tr.label, tr.spec))]
RECURSIVE PlainMerge(_, _)
PlainMerge(merged, deps) ==
    IF deps = <<>> THEN merged ELSE PlainMerge(PlainStep(merged, Head(deps)), Tail(deps))

\* "installed = lock_versions.get(name, '')" for every triple
JsMerge(deps, lock_versions) ==
    IF deps.exc \/ lock_versions.exc THEN Raised
    ELSE Ok(PkgsOf(PlainMerge(<<>>, [i \in 1..Len(deps.out) |->
                [name |-> deps.out[i].name, spec |-> deps.out[i].spec,
                 label |-> deps.out[i].label,
                 installed |-> Get(T(lock_versions.out), deps.out[i].name, S(""))]])))

JavaScriptEcosystem_load_dependencies(d) ==
    JsMerge(_parse_package_json(d.package_json), _parse_package_lock(d.package_lock))

\* str.split(): the whitespace-separated parts
WordLen(s) == RunLen(s, 1, CharsOf(s) \ WsChars)
RECURSIVE SplitWs(_)
SplitWs(s) ==
    IF LStrip(s) = "" THEN <<>>
    ELSE <<SubSeq(LStrip(s), 1, WordLen(LStrip(s)))>>
         \o SplitWs(From(LStrip(s), WordLen(LStrip(s)) + 1))

\* "if line.startswith('require '): line = line[8:].strip()"
GoBody(line) == IF StartsWith(line, "require ") THEN Strip(From(line, 9)) ELSE line
\* "module v1.2.3" or "module v1.2.3 // indirect"
GoDep(body) == [module |-> SplitWs(body)[1], version |-> SplitWs(body)[2],
                is_indirect |-> Contains(body, "// indirect")]

\* the loop of _parse_go_mod over the stripped lines
RECURSIVE GoModLines(_, _)
GoModLines(ls, in_require) ==
    IF ls = <<>> THEN <<>>
    ELSE IF StartsWith(Head(ls), "require (") THEN GoModLines(Tail(ls), TRUE)
    ELSE IF Head(ls) = ")" /\ in_require THEN GoModLines(Tail(ls), FALSE)
    ELSE IF (in_require \/ StartsWith(Head(ls), "require "))
            /\ Len(SplitWs(GoBody(Head(ls)))) >= 2
    THEN <<GoDep(GoBody(Head(ls)))>> \o GoModLines(Tail(ls), in_require)
    ELSE GoModLines(Tail(ls), in_require)

\* path.read_text() is not guarded: an unreadable go.mod raises
_parse_go_mod(f) ==
    IF f.st = "missing" THEN Ok(<<>>)
    ELSE IF f.st # "ok" THEN Raised
    ELSE Ok(GoModLines(StripEach(SplitLines(f.text)), FALSE))

\* "source_label = 'indirect' if is_indirect else 'main'", installed_version=version
GoMerge(deps) ==
    IF deps.exc THEN Raised
    ELSE Ok(PkgsOf(PlainMerge(<<>>, [i \in 1..Len(deps.out) |->
                [name |-> deps.out[i].module, spec |-> deps.out[i].version,
                 label |-> IF deps.out[i].is_indirect THEN "indirect" ELSE "main",
                 installed |-> deps.out[i].version]])))

GoEcosystem_load_dependencies(d) == GoMerge(_parse_go_mod(d.go_mod))

(***************************************************************************)
(* The project directory                                                   *)
(***************************************************************************)
EmptyDir == [pyproject |-> Missing,
             reqs |-> [n \in {ReqNames[i] : i \in 1..Len(ReqNames)} |-> Missing],
             setup_py |-> Missing, setup_cfg |-> Missing, pipfile |-> Missing,
             uv_lock |-> Missing,
             package_json |-> Missing, package_lock |-> Missing, go_mod |-> Missing]

\* the files of the directory, as slots
ReqSlots == {ReqNames[i] : i \in 1..Len(ReqNames)}
ParseSlots == {"pyproject", "setup_py", "setup_cfg", "pipfile"} \cup ReqSlots
PySlots == ParseSlots \cup {"uv_lock"}
EcoSlots == {"package_json", "package_lock", "go_mod"}
TextSlots == {"setup_cfg", "pipfile"} \cup ReqSlots

FileAt(d, slot) ==
    CASE slot = "pyproject" -> d.pyproject
      [] slot \in ReqSlots -> d.reqs[slot]
      [] slot = "setup_py" -> d.setup_py
      [] slot = "setup_cfg" -> d.setup_cfg
      [] slot = "pipfile" -> d.pipfile
      [] slot = "uv_lock" -> d.uv_lock
      [] slot = "package_json" -> d.package_json
      [] slot = "package_lock" -> d.package_lock
      [] slot = "go_mod" -> d.go_mod
      [] OTHER -> Missing

WithFile(d, slot, f) ==
    CASE slot = "pyproject" -> [d EXCEPT !.pyproject = f]
      [] slot \in ReqSlots -> [d EXCEPT !.reqs[slot] = f]
      [] slot = "setup_py" -> [d EXCEPT !.setup_py = f]
      [] slot = "setup_cfg" -> [d EXCEPT !.setup_cfg = f]
      [] slot = "pipfile" -> [d EXCEPT !.pipfile = f]
      [] slot = "uv_lock" -> [d EXCEPT !.uv_lock = f]
      [] slot = "package_json" -> [d EXCEPT !.package_json = f]
      [] slot = "package_lock" -> [d EXCEPT !.package_lock = f]
      [] slot = "go_mod" -> [d EXCEPT !.go_mod = f]
      [] OTHER -> d

Present(d) == {slot \in PySlots \cup EcoSlots : FileAt(d, slot) # Missing}

(***************************************************************************)
(* Per-source removal helpers                                              *)
(***************************************************************************)
\* what a helper does: the (ok, message) it returns, or the exception that
\* leaves it, and the file as it is afterwards
Returned(ok, msg, f) == [exc |-> FALSE, ok |-> ok, msg |-> msg, file |-> f]
Escaped(f) == [exc |-> TRUE, ok |-> FALSE, msg |-> "", file |-> f]

\* "parsed and _normalise(parsed[0]) == norm"
Names(text, norm) ==
    _parse_dep_string(text).ok /\ _normalise(_parse_dep_string(text).name) = norm

\* "if not removed: return False, ...; path.write_text('\n'.join(new_lines) + '\n')"
Rewritten(f, lines, new_lines, pkg_name, label) ==
    IF Len(new_lines) = Len(lines)
    THEN Returned(FALSE, "'" \o pkg_name \o "' not found in " \o label, f)
    ELSE Returned(TRUE, "Removed '" \o pkg_name \o "' from " \o label,
                  Text(JoinLines(new_lines) \o "\n"))

\* a line of a requirements file that declares the package of key norm
ReqLineNames(line, norm) == ~ReqSkipped(Strip(line)) /\ Names(Strip(line), norm)

\* f is the file at path, label its name; path.read_text is not guarded
_remove_from_requirements(f, label, pkg_name) ==
    IF f.st = "missing" THEN Returned(FALSE, label \o " not found", f)
    ELSE IF f.st # "ok" THEN Escaped(f)
    ELSE Rewritten(f, SplitLines(f.text),
                   SelectSeq(SplitLines(f.text),
                             LAMBDA line : ~ReqLineNames(line, _normalise(pkg_name))),
                   pkg_name, label)

\* "'\n' + '\n'.join(new_lines) if new_lines else ''"
SetValue(new_lines) == IF new_lines # <<>> THEN "\n" \o JoinLines(new_lines) ELSE ""

\* cfg.set validates the value (ValueError on a lone "%") before the file is opened
CfgRewritten(f, sections, lines, new_lines, pkg_name) ==
    IF Len(new_lines) = Len(lines)
    THEN Returned(FALSE, "'" \o pkg_name \o "' not found in setup.cfg", f)
    ELSE IF Interpolate(SetValue(new_lines)).exc THEN Escaped(f)
    ELSE Returned(TRUE, "Removed '" \o pkg_name \o "' from setup.cfg",
                  Text(CfgWrite(CfgSet(sections, "options", "install_requires",
                                       SetValue(new_lines)))))

\* the part of _remove_from_setup_cfg after cfg.get, whose outcome is got
CfgRemove(f, sections, got, pkg_name) ==
    IF got.exc THEN Escaped(f)
    ELSE CfgRewritten(f, sections, CfgLines(got.out),
                      SelectSeq(CfgLines(got.out),
                                LAMBDA line : ~Names(line, _normalise(pkg_name))),
                      pkg_name)

\* the part after the guarded cfg.read, whose outcome is cfg
CfgAfterRead(f, cfg, pkg_name) ==
    IF cfg.exc THEN Returned(FALSE, "Failed to parse setup.cfg: <error>", f)
    ELSE CfgRemove(f, cfg.sections, CfgGet(cfg.sections, "options", "install_requires"),
                   pkg_name)

_remove_from_setup_cfg(f, pkg_name) ==
    IF f.st = "missing" THEN Returned(FALSE, "setup.cfg not found", f)
    ELSE CfgAfterRead(f, CfgRead(f), pkg_name)

\* re.match(r"^([A-Za-z0-9][A-Za-z0-9._-]*)\s*=", stripped): the length of group 1, 0 if no match
PipKeyLen(stripped) ==
    IF /\ stripped # ""
       /\ Ch(stripped, 1) \in AlnumChars
       /\ SkipWs(stripped, 1 + RunLen(stripped, 1, NameChars)) <= Len(stripped)
       /\ Ch(stripped, SkipWs(stripped, 1 + RunLen(stripped, 1, NameChars))) = "="
    THEN RunLen(stripped, 1, NameChars)
    ELSE 0

\* "m and _normalise(m.group(1)) == norm"
PipLineNames(line, norm) ==
    /\ PipKeyLen(Strip(line)) > 0
    /\ _normalise(SubSeq(Strip(line), 1, PipKeyLen(Strip(line)))) = norm

_remove_from_pipfile(f, pkg_name) ==
    IF f.st = "missing" THEN Returned(FALSE, "Pipfile not found", f)
    ELSE IF f.st # "ok" THEN Escaped(f)
    ELSE Rewritten(f, SplitLines(f.text),
                   SelectSeq(SplitLines(f.text),
                             LAMBDA line : ~PipLineNames(line, _normalise(pkg_name))),
                   pkg_name, "Pipfile")

(***************************************************************************)
(* Removal routers: DependencyManagerApp._do_remove, PythonEcosystem.remove*)
(***************************************************************************)
RECURSIVE RStripCh(_, _)
RStripCh(s, c) == IF s # "" /\ Ch(s, Len(s)) = c THEN RStripCh(SubSeq(s, 1, Len(s) - 1), c)
                  ELSE s
\* str.split(c)[0]
UpTo(s, c) == IF FindCh(s, c, 1) = 0 THEN s ELSE SubSeq(s, 1, FindCh(s, c, 1) - 1)

\* source_file.split("[", 1)[1].rstrip("]").strip()
AppGroup(source_file) ==
    Strip(RStripCh(From(source_file, FindCh(source_file, "[", 1) + 1), "]"))
\* source.split("[")[1].rstrip("]")
EcoGroup(source) == RStripCh(UpTo(From(source, FindCh(source, "[", 1) + 1), "["), "]")

\* the branch _do_remove takes for a label
AppRoute(source_file) ==
    IF source_file = "setup.py" THEN "manual"
    ELSE IF source_file = "pyproject.toml" THEN "remove"
    ELSE IF StartsWith(source_file, "pyproject.toml [") THEN "remove_from_group"
    ELSE IF StartsWith(source_file, "requirements") THEN "_remove_from_requirements"
    ELSE IF source_file = "setup.cfg" THEN "_remove_from_setup_cfg"
    ELSE IF StartsWith(source_file, "Pipfile") THEN "_remove_from_pipfile"
    ELSE IF source_file = "venv" THEN "pip_uninstall"
    ELSE "unknown"

\* the branch PythonEcosystem.remove takes; group "" stands for None
EcoRoute(has_mgr, source, group) ==
    IF ~has_mgr THEN "none"
    ELSE IF source = "pyproject.toml"
    THEN (IF group # "" /\ group # "main" THEN "remove_from_group" ELSE "remove")
    ELSE IF StartsWith(source, "pyproject.toml [") THEN "remove_from_group"
    ELSE IF source = "requirements.txt" \/ StartsWith(source, "requirements")
    THEN "_remove_from_requirements"
    ELSE IF source = "setup.cfg" THEN "_remove_from_setup_cfg"
    ELSE IF source = "Pipfile" THEN "_remove_from_pipfile"
    ELSE IF source = "venv" THEN "pip_uninstall"
    ELSE "unknown"

\* what a uv command prints: nothing when it ends well, a complaint when it fails
FailureOutput == "error: no such package"
Output(ran) == IF ran THEN "" ELSE FailureOutput
\* PackageManager._run(*args): (returncode == 0, output); ran is the exit status
Delegated_quiet(route, d, args, ran) ==
    [route |-> route, exc |-> FALSE, ok |-> ran, msg |-> "", fs |-> d, calls |-> <<args>>]
Delegated(route, d, args, ran) ==
    [route |-> route, exc |-> FALSE, ok |-> ran, msg |-> Output(ran), fs |-> d,
     calls |-> <<args>>]
\* a helper run on the file of a slot of the working directory
Mutated(route, d, slot, out) ==
    [route |-> route, exc |-> out.exc, ok |-> out.ok, msg |-> out.msg,
     fs |-> IF out.ok THEN WithFile(d, slot, out.file) ELSE d, calls |-> <<>>]
Declined(route, msg, d) ==
    [route |-> route, exc |-> FALSE, ok |-> FALSE, msg |-> msg, fs |-> d, calls |-> <<>>]

\* the body of a branch
Run(route, d, pkg_name, label, group, ran) ==
    CASE route = "remove" -> Delegated(route, d, <<"remove", pkg_name>>, ran)
      [] route = "remove_from_group" ->
            Delegated(route, d, <<"remove", "--group", group, pkg_name>>, ran)
      [] route = "_remove_from_requirements" ->
            Mutated(route, d, label, _remove_from_requirements(FileAt(d, label), label, pkg_name))
      [] route = "_remove_from_setup_cfg" ->
            Mutated(route, d, "setup_cfg", _remove_from_setup_cfg(d.setup_cfg, pkg_name))
      [] route = "_remove_from_pipfile" ->
            Mutated(route, d, "pipfile", _remove_from_pipfile(d.pipfile, pkg_name))
      [] route = "pip_uninstall" -> Delegated(route, d, <<"pip", "uninstall", pkg_name>>, ran)
      [] route = "manual" ->    \* the source's dash is U+2014
            Declined(route, "Cannot auto-edit setup.py - please remove the dependency '"
                            \o pkg_name \o "' manually.", d)
      [] route = "none" -> Declined(route, "uv not installed", d)
      [] OTHER -> Declined(route, "Unknown source: " \o label, d)

_do_remove(d, pkg_name, source_file, ran) ==
    Run(AppRoute(source_file), d, pkg_name, source_file, AppGroup(source_file), ran)

\* "output[:200]"
NoteCut == 200
Cut(output) == SubSeq(output, 1, IF Len(output) < NoteCut THEN Len(output) ELSE NoteCut)
\* what the caller of a removal is told: _do_remove notifies the user, the other
\* operations return their message; nothing is told when an exception leaves
Notify(op, r, pkg_name, source_file) ==
    IF r.exc THEN ""
    ELSE IF op # "_do_remove" \/ r.route \in {"manual", "unknown"} THEN r.msg
    ELSE IF r.ok THEN "Removed " \o pkg_name \o " from " \o source_file
    ELSE "Failed to remove " \o pkg_name \o ": " \o Cut(r.msg)

PythonEcosystem_remove(has_mgr, d, package, source, group, ran) ==
    Run(EcoRoute(has_mgr, source, group), d, package, source,
        IF source = "pyproject.toml" THEN group ELSE EcoGroup(source), ran)

(***************************************************************************)
(* The application: panels, modal screens and the actions bound to keys    *)
(***************************************************************************)
\* DependencyManagerApp.__init__: no packages, panel index 2, nothing mounted
NoUi == [mounted |-> FALSE, panel |-> 2, focused |-> "", packages |-> <<>>,
         selected |-> 0, latest |-> [names |-> {}, v |-> ""], screens |-> <<>>]
\* self._panel_ids
_panel_ids == <<"status-panel", "sources-panel", "packages-panel">>

\* a modal screen on the stack, with what its callback closes over
NoPkg == Package("", <<>>, "")
Modal(kind, then, pkg, source, outdated) ==
    [kind |-> kind, then |-> then, pkg |-> pkg, source |-> source, outdated |-> outdated,
     sel |-> 0]
Push(u, m) == [u EXCEPT !.screens = Append(@, m)]
Pop(u) == [u EXCEPT !.screens = SubSeq(@, 1, Len(@) - 1)]
Top(u) == u.screens[Len(u.screens)]
NoModal == Modal("", "", NoPkg, "", <<>>)
TopOr(u) == IF u.screens = <<>> THEN NoModal ELSE Top(u)

\* what a handler leaves: the interface, the notification, the workers started,
\* the uv commands run and the directory
Out(u, note, d) == [ui |-> u, note |-> note, started |-> <<>>, calls |-> <<>>, fs |-> d]
Worked(u, note, worker, cmds, d) ==
    [ui |-> u, note |-> note, started |-> <<worker>>, calls |-> cmds, fs |-> d]

\* Path.is_file()
IsFile(f) == f.st # "missing"
\* _ensure_toml_or_warn
_ensure_toml_always(d) == TRUE
_ensure_toml_or_warn(d) == IsFile(d.pyproject)
NoToml == "No pyproject.toml found. Press 'i' to init."

\* PackagesPanel.set_packages and _apply_filters with no filter set
set_packages(u, pkgs) ==
    [u EXCEPT !.packages = pkgs,
              !.selected = IF u.selected >= Len(pkgs)
                           THEN (IF Len(pkgs) = 0 THEN 0 ELSE Len(pkgs) - 1)
                           ELSE u.selected]
\* _refresh_data: a failed load leaves an empty list
LoadedOr(r) == IF r.exc THEN <<>> ELSE r.out
_refresh_data(u, d, v) == set_packages(u, LoadedOr(load_dependencies(d, _parse_installed(v))))

\* PackagesPanel.get_selected_package (selected_index counts from 0)
_selected_package(u) ==
    IF u.packages = <<>> THEN NoPkg
    ELSE IF u.selected < Len(u.packages) THEN u.packages[u.selected + 1]
    ELSE NoPkg

\* on_mount
InitModal == Modal("ConfirmModal", "init", NoPkg, "", <<>>)
Mounted(u) == [u EXCEPT !.mounted = TRUE, !.focused = "packages-panel", !.panel = 2]
on_mount(u, d, v) ==
    IF IsFile(d.pyproject) THEN _refresh_data(Mounted(u), d, v)
    ELSE Push(Mounted(u), InitModal)

\* _cycle_panel(direction) and _jump_to_panel(idx): every PanelWidget can take focus
_cycle_panel(u, direction) ==
    [u EXCEPT !.panel = (u.panel + direction) % Len(_panel_ids),
              !.focused = _panel_ids[((u.panel + direction) % Len(_panel_ids)) + 1]]
_jump_to_panel(u, idx) ==
    IF 0 <= idx /\ idx < Len(_panel_ids)
    THEN [u EXCEPT !.panel = idx, !.focused = _panel_ids[idx + 1]]
    ELSE u

\* move_down and move_up of the packages panel
move_down(u) ==
    IF u.packages # <<>> /\ u.selected < Len(u.packages) - 1
    THEN [u EXCEPT !.selected = @ + 1] ELSE u
move_up(u) ==
    IF u.packages # <<>> /\ u.selected > 0 THEN [u EXCEPT !.selected = @ - 1] ELSE u

\* action_init_project
action_init_project(u, d) ==
    IF IsFile(d.pyproject) THEN Out(u, "pyproject.toml already exists.", d)
    ELSE Out(Push(u, InitModal), "", d)

\* action_search_pypi, _on_search_result and _on_search_confirm: the add modal
\* opens with the name found, without a look at pyproject.toml
action_search_pypi(u, d) == Out(Push(u, Modal("SearchPyPIModal", "search", NoPkg, "", <<>>)), "", d)
_on_search_result(u, result) ==
    Push(u, Modal("ConfirmModal", "search", Package(result, <<>>, ""), "", <<>>))
_on_search_confirm(u, package) ==
    Push(u, Modal("AddPackageModal", "add", Package(package, <<>>, ""), "", <<>>))

\* action_add_package
action_add_package(u, d) ==
    IF ~_ensure_toml_or_warn(d) THEN Out(u, NoToml, d)
    ELSE Out(Push(u, Modal("AddPackageModal", "add", NoPkg, "", <<>>)), "", d)

\* action_update_package
action_update_package(u, d) ==
    IF ~_ensure_toml_or_warn(d) THEN Out(u, NoToml, d)
    ELSE IF _selected_package(u) = NoPkg THEN Out(u, "Select a package first.", d)
    ELSE Out(Push(u, Modal("UpdatePackageModal", "update", _selected_package(u), "", <<>>)),
             "", d)

\* _confirm_and_remove(pkg, source_file)
_confirm_and_remove(u, pkg, source_file) ==
    Push(u, Modal("ConfirmModal", "remove", pkg, source_file, <<>>))

\* action_delete_package
action_delete_package(u, d) ==
    IF ~_ensure_toml_or_warn(d) THEN Out(u, NoToml, d)
    ELSE IF _selected_package(u) = NoPkg THEN Out(u, "Select a package first.", d)
    ELSE IF Len(_selected_package(u).sources) = 1
    THEN Out(_confirm_and_remove(u, _selected_package(u), _selected_package(u).sources[1].file),
             "", d)
    ELSE Out(Push(u, Modal("SourceSelectModal", "select", _selected_package(u), "", <<>>)),
             "", d)

\* self._latest_versions.get(_normalise(name), ""): the map holds one answer
\* for every name that was checked
LatestOf(u, name) == IF _normalise(name) \in u.latest.names THEN u.latest.v ELSE ""
\* _check_all_outdated: answer is what PyPI gave, "" for a failed lookup
_check_all_outdated(u, answer) ==
    IF u.packages = <<>> THEN u
    ELSE [u EXCEPT !.latest = [names |-> {_normalise(u.packages[i].name) :
                                              i \in 1..Len(u.packages)},
                               v |-> answer]]
\* the packages action_update_all_outdated collects
Outdated(u) ==
    SelectSeq(u.packages,
              LAMBDA p : p.installed_version # "" /\ LatestOf(u, p.name) # ""
                         /\ p.installed_version # LatestOf(u, p.name))
\* action_update_all_outdated
action_update_all_outdated(u, d) ==
    IF ~_ensure_toml_or_warn(d) THEN Out(u, NoToml, d)
    ELSE IF Outdated(u) = <<>> THEN Out(u, "No outdated packages. Press 'o' to check.", d)
    ELSE Out(Push(u, Modal("ConfirmModal", "update_all", NoPkg, "", Outdated(u))), "", d)

\* PackageManager.add(package, version, constraint, group): the uv arguments
AddArgs(package, version, constraint, group) ==
    <<"add">> \o (IF group # "" /\ group # "main" THEN <<"--group", group>> ELSE <<>>)
    \o <<IF version # "" THEN package \o constraint \o version ELSE package>>

\* the workers below run to their end in one step; their notifications are cut
\* to the leading words, the package names and counts left out
\* the worker _do_add(result), then _refresh_data
_do_add(u, d, v, result, ran) ==
    Worked(_refresh_data(u, d, v), IF ran THEN "Added" ELSE "Failed to add",
           [worker |-> "_do_add", pkg |-> result[1], source |-> ""],
           <<AddArgs(result[1], result[2], result[3], result[4])>>, d)

\* the worker _do_update(result), then _refresh_data
_do_update(u, d, v, result, ran) ==
    Worked(_refresh_data(u, d, v), IF ran THEN "Updated" ELSE "Failed to update",
           [worker |-> "_do_update", pkg |-> result[1], source |-> ""],
           <<AddArgs(result[1], result[2], result[3], "")>>, d)

\* the worker _do_update_all(outdated): one "uv add name==latest" per package
_do_update_all(u, d, v, outdated, ran) ==
    Worked(_refresh_data(u, d, v), IF ran THEN "Updated all" ELSE "Updated 0",
           [worker |-> "_do_update_all", pkg |-> "", source |-> ""],
           [i \in 1..Len(outdated) |-> AddArgs(outdated[i].name, LatestOf(u, outdated[i].name), "==", "")], d)

\* the worker _do_init, then _refresh_data
_do_init(u, d, v, ran) ==
    Worked(_refresh_data(u, d, v), IF ran THEN "Project initialised" ELSE "Init failed",
           [worker |-> "_do_init", pkg |-> "", source |-> ""], <<<<"init", "--bare">>>>, d)

\* the worker _do_remove(pkg, source_file): r is what the router did; it returns
\* before _refresh_data for setup.py and for an unknown source
RemoveWorker(pkg, source_file) == [worker |-> "_do_remove", pkg |-> pkg.name, source |-> source_file]
AfterRemove(u, v, pkg, source_file, r) ==
    IF r.exc \/ r.route \in {"manual", "unknown"}
    THEN Worked(u, Notify("_do_remove", r, pkg.name, source_file),
                RemoveWorker(pkg, source_file), r.calls, r.fs)
    ELSE Worked(_refresh_data(u, r.fs, v), Notify("_do_remove", r, pkg.name, source_file),
                RemoveWorker(pkg, source_file), r.calls, r.fs)
RemoveWorked(u, d, v, pkg, source_file, ran) ==
    AfterRemove(u, v, pkg, source_file, _do_remove(d, pkg.name, source_file, ran))

\* the callbacks of ConfirmModal: _on_confirm, _on_init_confirm, _on_update_all_confirm
_on_confirm_always(confirmed) == TRUE
_on_confirm(confirmed) == confirmed
ConfirmDismissed(u, d, v, m, confirmed, ran) ==
    IF m.then = "remove"
    THEN (IF _on_confirm(confirmed) THEN RemoveWorked(u, d, v, m.pkg, m.source, ran)
          ELSE Out(u, "", d))
    ELSE IF ~confirmed THEN Out(u, "", d)
    ELSE IF m.then = "search" THEN Out(_on_search_confirm(u, m.pkg.name), "", d)
    ELSE IF m.then = "init" THEN _do_init(u, d, v, ran)
    ELSE _do_update_all(u, d, v, m.outdated, ran)

\* SourceSelectModal: j/k move the marker; Enter or a digit dismisses with a
\* file, Escape with None (here ""); the callback is _on_source_selected
SourceMoved(m, step) ==
    [m EXCEPT !.sel = IF step > 0
                      THEN (IF m.sel + 1 < Len(m.pkg.sources) THEN m.sel + 1
                            ELSE Len(m.pkg.sources) - 1)
                      ELSE (IF m.sel > 0 THEN m.sel - 1 ELSE 0)]
_on_source_selected(u, m, source_file) ==
    IF source_file # "" THEN _confirm_and_remove(u, m.pkg, source_file) ELSE u

(***************************************************************************)
(* Bounded inputs                                                          *)
(***************************************************************************)
MaxFiles == 2        \* dependency sources present in the directory at once
MaxTexts == 1        \* files present in the directory when a removal is asked
MaxName == 3         \* characters of a package name handed to _normalise

NoVenv == [st |-> "ok", pkgs |-> <<>>]

Deps(strs) == A([i \in 1..Len(strs) |-> S(strs[i])])
Project(members) == T(<<KV("project", T(members))>>)

PyprojectFiles ==
    { Unreadable, BadSyntax,
      Doc(Project(<<KV("name", S("x")), KV("dependencies", Deps(<<"a-b>=1", "cd", "cd">>))>>)),
      Doc(Project(<<KV("dependencies", Deps(<<"a-b>=1", "A_b>=1", "a-b>=1">>)),
                    KV("optional-dependencies", T(<<KV("dev", Deps(<<"A_b">>))>>))>>)),
      Doc(T(<<KV("dependency-groups",
                 T(<<KV("test", A(<<S("Cd==2"), T(<<KV("include-group", S("dev"))>>)>>))>>))>>)),
      Doc(T(<<KV("project", S("x"))>>)),
      Doc(Project(<<KV("dependencies", A(<<S("cd"), N(1)>>))>>)),
      Doc(Project(<<KV("optional-dependencies", Deps(<<"cd">>))>>)) }

ReqFiles ==
    { Unreadable,
      Text("a-b>=1\n# cd\n\nzz\n"),
      Text("A_b\na-b>=1\ncd"),
      Text("-r x\n\ncd==2\n") }

SetupPyFiles ==
    { BadSyntax,
      Doc(A(<<T(<<KV("name", S("x")), KV("install_requires", A(<<S("A.B==3"), N(1)>>))>>)>>)),
      Doc(A(<<T(<<KV("install_requires", Expr)>>)>>)) }

SetupCfgFiles ==
    { Unreadable,
      Text("[options]\ninstall_requires = a-b\n"),
      Text("# deps\n[options]\ninstall_requires =\n    a.b<4\n    cd\n"),
      Text("a-b\n"),
      Text("[options]\ninstall_requires = a%b\n") }

PipfileFiles ==
    { Unreadable,
      Text("[packages]\na_b = \"*\"\n"),
      Text("[requires]\nname = \"3\"\n\n[packages]\nA-B = {version = \"==5\"}\n[dev-packages]\ncd = \"*\"\n"),
      Text("[packages]\n\"zz\" = \"*\"\n"),
      Text("[packages]\noops\n") }

LockRec(name, version) == T(<<KV("name", name), KV("version", version)>>)
LockFiles ==
    { BadSyntax,
      Doc(T(<<KV("package", A(<<LockRec(S("A.B"), S("1.0")), T(<<KV("name", S("cd"))>>)>>))>>)),
      Doc(T(<<KV("package", N(1))>>)),
      Doc(T(<<KV("package", A(<<LockRec(N(1), S("1.0"))>>))>>)) }

Inst(name, version) == [name |-> name, version |-> version]
Venvs ==
    { [st |-> "fail", pkgs |-> <<>>],
      [st |-> "ok", pkgs |-> <<Inst("a-b", "2.0")>>],
      [st |-> "ok", pkgs |-> <<Inst("A_B", "2.0"), Inst("a-b", "3.0"), Inst("cd", "")>>] }

PackageJsonFiles ==
    { BadSyntax,
      Doc(T(<<KV("name", S("x")),
              KV("dependencies", T(<<KV("ab", S("^1")), KV("@s/n", S("^2"))>>)),
              KV("devDependencies", T(<<KV("ab", S("^1")), KV("Cd", S("2"))>>))>>)),
      Doc(T(<<KV("dependencies", A(<<S("ab")>>))>>)) }

PackageLockFiles ==
    { BadSyntax,
      Doc(T(<<KV("packages", T(<<KV("", T(<<>>)),
                                 KV("node_modules/ab", T(<<KV("version", S("1.2"))>>)),
                                 KV("node_modules/@s/n", T(<<KV("version", S("2.2"))>>))>>))>>)),
      Doc(T(<<KV("dependencies", T(<<KV("ab", T(<<KV("version", S("1.0"))>>))>>))>>)) }

GoModFiles ==
    { Unreadable,
      Text("module x\n\ngo 1.21\n\nrequire (\n\ta/b v1.0.0\n\tc/d v2 // indirect\n)\n"),
      Text("module x\nrequire a/b v1.0.0\nrequire a/b v1.0.0\n"),
      Text("require (\n\ta/b v1\n\ta/b v1 // indirect\n)\n"),
      Text("require (\n\t// a b\n\n\tc/d v2\n)\n// x y\n") }

SlotFiles(slot) ==
    CASE slot = "pyproject" -> PyprojectFiles
      [] slot \in ReqSlots -> ReqFiles
      [] slot = "setup_py" -> SetupPyFiles
      [] slot = "setup_cfg" -> SetupCfgFiles
      [] slot = "pipfile" -> PipfileFiles
      [] slot = "uv_lock" -> LockFiles
      [] slot = "package_json" -> PackageJsonFiles
      [] slot = "package_lock" -> PackageLockFiles
      [] slot = "go_mod" -> GoModFiles

\* the package names, labels and group arguments a removal is asked with
RemoveNames == {"A_B", "cd", "zz", "name"}
\* the routers are exercised on one package and the files that mention it
RouteNames == {"cd"}
RouteFiles(slot) == {f \in SlotFiles(slot) : f.st = "ok" /\ Contains(f.text, "cd")}
RouteLabels == {"pyproject.toml", "pyproject.toml [dev]", "requirements.txt",
                "requirements-dev.txt", "setup.cfg", "Pipfile", "venv", "setup.py", "uv.lock"}
GroupArgs == {"", "main", "test"}

NoRet == [op |-> "none"]

(***************************************************************************)
(* Aggregation over a directory edited from outside                        *)
(***************************************************************************)
Init == /\ fs = EmptyDir
        /\ venv = NoVenv
        /\ uv = TRUE
        /\ ret = NoRet
        /\ calls = <<>>
        /\ ui = NoUi

\* the user (or a tool) creates or replaces one source file
WriteFile(slot, f) ==
    /\ Cardinality(Present(fs) \cup {slot}) + (IF venv # NoVenv THEN 1 ELSE 0) <= MaxFiles
    /\ fs' = WithFile(fs, slot, f)
    /\ ret' = NoRet
    /\ calls' = <<>>
    /\ UNCHANGED <<venv, uv, ui>>

\* the same, in a directory of at most MaxTexts files
WriteText(slot, f) ==
    /\ Cardinality(Present(fs) \cup {slot}) <= MaxTexts
    /\ fs' = WithFile(fs, slot, f)
    /\ ret' = NoRet
    /\ calls' = <<>>
    /\ UNCHANGED <<venv, uv, ui>>

\* the environment's installed packages change
SetVenv(v) ==
    /\ Cardinality(Present(fs)) + 1 <= MaxFiles
    /\ venv' = v
    /\ ret' = NoRet
    /\ UNCHANGED <<fs, uv, calls, ui>>

\* load_dependencies(installed) with the pre-fetched list, as _refresh_data calls it
LoadDependencies ==
    /\ ret' = [op |-> "load_dependencies", installed |-> _parse_installed(venv),
               res |-> load_dependencies(fs, _parse_installed(venv))]
    /\ UNCHANGED <<fs, venv, uv, calls, ui>>

\* PythonEcosystem.load_dependencies(path)
EcoLoadDependencies ==
    /\ ret' = [op |-> "PythonEcosystem.load_dependencies", installed |-> <<>>,
               res |-> PythonEcosystem_load_dependencies(fs)]
    /\ UNCHANGED <<fs, venv, uv, calls, ui>>

Next == \/ \E slot \in PySlots : \E f \in SlotFiles(slot) : WriteFile(slot, f)
        \/ \E v \in Venvs : SetVenv(v)
        \/ LoadDependencies
        \/ EcoLoadDependencies

Spec == Init /\ [][Next]_vars

(***************************************************************************)
(* The JavaScript and Go loaders over their files                          *)
(***************************************************************************)
\* JavaScriptEcosystem.load_dependencies(path)
JsLoadDependencies ==
    /\ ret' = [op |-> "JavaScriptEcosystem.load_dependencies", installed |-> <<>>,
               res |-> JavaScriptEcosystem_load_dependencies(fs)]
    /\ UNCHANGED <<fs, venv, uv, calls, ui>>

\* GoEcosystem.load_dependencies(path)
GoLoadDependencies ==
    /\ ret' = [op |-> "GoEcosystem.load_dependencies", installed |-> <<>>,
               res |-> GoEcosystem_load_dependencies(fs)]
    /\ UNCHANGED <<fs, venv, uv, calls, ui>>

NextEco == \/ \E slot \in EcoSlots : \E f \in SlotFiles(slot) : WriteFile(slot, f)
           \/ JsLoadDependencies
           \/ GoLoadDependencies

SpecEco == Init /\ [][NextEco]_vars

(***************************************************************************)
(* load_dependencies called again and again while the directory changes    *)
(***************************************************************************)
ReloadSlots == {"pyproject", "requirements.txt", "uv_lock"}
ReloadFiles(slot) ==
    CASE slot = "pyproject" ->
            {Doc(Project(<<KV("dependencies", Deps(<<"zz", "cd">>))>>)),
             Doc(Project(<<KV("dependencies", Deps(<<"a-b>=1">>))>>))}
      [] slot = "requirements.txt" -> {Text("A_b\na-b>=1\ncd"), Text("-r x\n\ncd==2\n")}
      [] slot = "uv_lock" ->
            {Doc(T(<<KV("package", A(<<LockRec(S("A.B"), S("1.0"))>>))>>))}
ReloadVenvs == {[st |-> "ok", pkgs |-> <<Inst("a-b", "2.0")>>]}

\* a file changes between two refreshes; what the last call returned is still held
Rewrite(slot, f) ==
    /\ Cardinality(Present(fs) \cup {slot}) + (IF venv # NoVenv THEN 1 ELSE 0) <= MaxFiles
    /\ fs' = WithFile(fs, slot, f)
    /\ UNCHANGED <<venv, uv, ret, calls, ui>>

Reinstall(v) ==
    /\ Cardinality(Present(fs)) + 1 <= MaxFiles
    /\ venv' = v
    /\ UNCHANGED <<fs, uv, ret, calls, ui>>

\* the map the call before this one built: its locals, gone when it returned
Built(r) == IF r.op = "load_dependencies" THEN r.built ELSE <<>>
\* how the call before this one was made: not at all, on the same input, on another
Nth(r, d, installed) ==
    IF r.op # "load_dependencies" THEN "first"
    ELSE IF r.dir = d /\ r.installed = installed THEN "same" ELSE "other"

Refreshed(before, d, installed, raw, lock) ==
    /\ ret' = [op |-> "load_dependencies", installed |-> installed, dir |-> d,
               nth |-> Nth(ret, d, installed), last |-> IF ret.op = "none" THEN Raised ELSE ret.res,
               built |-> IF raw.exc \/ lock.exc THEN <<>>
                         ELSE Merged(before, raw, installed, lock, TRUE),
               res |-> MergeAfter(before, raw, installed, lock, TRUE)]
    /\ UNCHANGED <<fs, venv, uv, calls, ui>>

\* _refresh_data once more: load_dependencies(installed) in the same process
Reload == Refreshed(Built(ret), fs, _parse_installed(venv), RawTriples(fs), _parse_lock(fs.uv_lock))

NextReload == \/ \E slot \in ReloadSlots : \E f \in ReloadFiles(slot) : Rewrite(slot, f)
              \/ \E v \in ReloadVenvs : Reinstall(v)
              \/ Reload

SpecReload == Init /\ [][NextReload]_vars

(***************************************************************************)
(* _normalise on the names of a small alphabet                             *)
(***************************************************************************)
NormChars == {"a", "B", "-", "_", "."}
RECURSIVE NamesUpTo(_)
NamesUpTo(n) ==
    IF n = 0 THEN {""}
    ELSE NamesUpTo(n - 1) \cup {s \o c : s \in NamesUpTo(n - 1), c \in NormChars}

Normalise(name) ==
    /\ ret' = [op |-> "_normalise", name |-> name, res |-> _normalise(name)]
    /\ UNCHANGED <<fs, venv, uv, calls, ui>>

NextNorm == \E name \in NamesUpTo(MaxName) : Normalise(name)

SpecNorm == Init /\ [][NextNorm]_vars

(***************************************************************************)
(* The source parsers, each called on its file                             *)
(***************************************************************************)
Parsed(op, f, res) ==
    /\ ret' = [op |-> op, file |-> f, res |-> res]
    /\ UNCHANGED <<fs, venv, uv, calls, ui>>

ParsePyproject == Parsed("_parse_pyproject", fs.pyproject, _parse_pyproject(fs.pyproject))
ParseRequirements(label) ==
    Parsed("_parse_requirements", fs.reqs[label], _parse_requirements(fs.reqs[label], label))
ParseSetupPy == Parsed("_parse_setup_py", fs.setup_py, _parse_setup_py(fs.setup_py))
ParseSetupCfg == Parsed("_parse_setup_cfg", fs.setup_cfg, _parse_setup_cfg(fs.setup_cfg))
ParsePipfile == Parsed("_parse_pipfile", fs.pipfile, _parse_pipfile(fs.pipfile))
ParseGoMod == Parsed("_parse_go_mod", fs.go_mod, _parse_go_mod(fs.go_mod))

NextParse == \/ \E slot \in ParseSlots \cup {"go_mod"} : \E f \in SlotFiles(slot) : WriteFile(slot, f)
             \/ ParsePyproject
             \/ \E label \in ReqSlots : ParseRequirements(label)
             \/ ParseSetupPy
             \/ ParseSetupCfg
             \/ ParsePipfile
             \/ ParseGoMod

SpecParse == Init /\ [][NextParse]_vars

(***************************************************************************)
(* Removal: the helpers called directly, and through the two routers       *)
(***************************************************************************)
\* a removal ends: r is what ran, its file and commands
Removed(op, pkg_name, label, group, r) ==
    /\ fs' = r.fs
    /\ calls' = r.calls
    /\ ret' = [op |-> op, pkg |-> pkg_name, label |-> label, group |-> group, before |-> fs,
               route |-> r.route, exc |-> r.exc, ok |-> r.ok, msg |-> r.msg,
               note |-> Notify(op, r, pkg_name, label)]
    /\ UNCHANGED <<venv, uv, ui>>

RemoveFromRequirements(label, pkg_name) ==
    Removed("_remove_from_requirements", pkg_name, label, "",
            Mutated("_remove_from_requirements", fs, label,
                    _remove_from_requirements(fs.reqs[label], label, pkg_name)))

RemoveFromSetupCfg(pkg_name) ==
    Removed("_remove_from_setup_cfg", pkg_name, "setup.cfg", "",
            Mutated("_remove_from_setup_cfg", fs, "setup_cfg",
                    _remove_from_setup_cfg(fs.setup_cfg, pkg_name)))

RemoveFromPipfile(pkg_name) ==
    Removed("_remove_from_pipfile", pkg_name, "Pipfile", "",
            Mutated("_remove_from_pipfile", fs, "pipfile",
                    _remove_from_pipfile(fs.pipfile, pkg_name)))

NextRemove == \/ \E slot \in TextSlots : \E f \in SlotFiles(slot) : WriteText(slot, f)
              \/ \E label \in ReqSlots : \E p \in RemoveNames : RemoveFromRequirements(label, p)
              \/ \E p \in RemoveNames : RemoveFromSetupCfg(p)
              \/ \E p \in RemoveNames : RemoveFromPipfile(p)

SpecRemove == Init /\ [][NextRemove]_vars

(***************************************************************************)
(* Removal through the two routers                                         *)
(***************************************************************************)
\* shutil.which("uv") when PackageManager() is constructed
FindUv(found) ==
    /\ uv' = found
    /\ ret' = NoRet
    /\ calls' = <<>>
    /\ UNCHANGED <<fs, venv, ui>>

\* DependencyManagerApp._do_remove; the app exists only if PackageManager() did not raise
DoRemove(pkg_name, source_file) ==
    /\ uv
    /\ \E ran \in BOOLEAN :
          Removed("_do_remove", pkg_name, source_file, "",
                  _do_remove(fs, pkg_name, source_file, ran))

\* PythonEcosystem.remove(package, source, group); _pkg_mgr is None when uv was not found
EcoRemove(package, source, group) ==
    \E ran \in BOOLEAN :
       Removed("PythonEcosystem.remove", package, source, group,
               PythonEcosystem_remove(uv, fs, package, source, group, ran))

NextRoute == \/ \E slot \in TextSlots : \E f \in RouteFiles(slot) : WriteText(slot, f)
             \/ \E found \in BOOLEAN : FindUv(found)
             \/ \E p \in RouteNames : \E l \in RouteLabels : DoRemove(p, l)
             \/ \E p \in RouteNames : \E l \in RouteLabels : \E g \in GroupArgs :
                   EcoRemove(p, l, g)

SpecRoute == Init /\ [][NextRoute]_vars

(***************************************************************************)
(* Group labels: from the pyproject.toml parser to the routers             *)
(***************************************************************************)
GroupTables == {"optional-dependencies", "dependency-groups"}
\* keys that TOML lets one write, bare or quoted
GroupNames == {"dev", "a.b", "main", "x]", " y", "p[q"}
GroupDoc(table, g) ==
    IF table = "optional-dependencies"
    THEN Doc(Project(<<KV(table, T(<<KV(g, Deps(<<"cd", "zz>=1">>))>>))>>))
    ELSE Doc(T(<<KV(table, T(<<KV(g, Deps(<<"cd", "zz>=1">>))>>))>>))

WriteGroup(table, g) ==
    /\ fs' = WithFile(fs, "pyproject", GroupDoc(table, g))
    /\ ret' = NoRet
    /\ calls' = <<>>
    /\ UNCHANGED <<venv, uv, ui>>

\* the i-th triple the parser reports is removed through its own label
Found(d, i) == _parse_pyproject(d.pyproject).out[i]
AppRemoveFound(i) ==
    /\ uv
    /\ ~_parse_pyproject(fs.pyproject).exc /\ i <= Len(_parse_pyproject(fs.pyproject).out)
    /\ \E ran \in BOOLEAN :
          Removed("_do_remove", Found(fs, i).name, Found(fs, i).label, "",
                  _do_remove(fs, Found(fs, i).name, Found(fs, i).label, ran))
EcoRemoveFound(i) ==
    /\ ~_parse_pyproject(fs.pyproject).exc /\ i <= Len(_parse_pyproject(fs.pyproject).out)
    /\ \E ran \in BOOLEAN :
          Removed("PythonEcosystem.remove", Found(fs, i).name, Found(fs, i).label, "",
                  PythonEcosystem_remove(uv, fs, Found(fs, i).name, Found(fs, i).label, "", ran))

NextGroup == \/ \E table \in GroupTables : \E g \in GroupNames : WriteGroup(table, g)
             \/ \E found \in BOOLEAN : FindUv(found)
             \/ \E i \in 1..2 : AppRemoveFound(i)
             \/ \E i \in 1..2 : EcoRemoveFound(i)

SpecGroup == Init /\ [][NextGroup]_vars

(***************************************************************************)
(* The application driven by keys, over a directory edited from outside    *)
(***************************************************************************)
\* the application starts in a directory that holds a requirements file and an
\* environment; pyproject.toml comes and goes while it runs
AppDir == WithFile(EmptyDir, "requirements.txt", Text("cd==1\nzz\n"))
AppVenv == [st |-> "ok", pkgs |-> <<Inst("cd", "1.0")>>]
AppTomls == {Missing, Doc(Project(<<KV("dependencies", Deps(<<"cd">>))>>))}
\* what PyPI answers to the outdated check
Answers == {"2.0"}
\* what the add and the update modal are dismissed with
AddResults == {<<"cd", "", "==", "">>, <<"zz", "1.0", ">=", "dev">>}
UpdateVersions == {"2.0"}
SearchResults == {"zz"}

InitApp == /\ fs = AppDir
           /\ venv = AppVenv
           /\ uv = TRUE
           /\ ret = NoRet
           /\ calls = <<>>
           /\ ui = NoUi

\* pyproject.toml is created or deleted while the application runs
AppWrite(f) ==
    /\ fs' = WithFile(fs, "pyproject", f)
    /\ ret' = NoRet
    /\ calls' = <<>>
    /\ UNCHANGED <<venv, uv, ui>>

\* a handler of the application ran to its end, the workers it started included
Acted(op, out) ==
    /\ ui' = out.ui
    /\ fs' = out.fs
    /\ calls' = out.calls
    /\ ret' = [op |-> op, toml |-> IsFile(fs.pyproject), focused |-> ui.focused,
               screen |-> TopOr(ui), pkg |-> _selected_package(ui),
               wrote |-> out.fs # fs, note |-> out.note, started |-> out.started]
    /\ UNCHANGED <<venv, uv>>

\* the application's own keys and bindings act while no modal screen is open
Idle == ui.mounted /\ ui.screens = <<>>
Showing(kind) == ui.mounted /\ ui.screens # <<>> /\ Top(ui).kind = kind

Mount == /\ ~ui.mounted
         /\ Acted("on_mount", Out(on_mount(ui, fs, venv), "", fs))

\* on_key
PressTab == Idle /\ Acted("tab", Out(_cycle_panel(ui, 1), "", fs))
PressShiftTab == Idle /\ Acted("shift+tab", Out(_cycle_panel(ui, -1), "", fs))
PressDigit(n) == Idle /\ Acted("digit", Out(_jump_to_panel(ui, n - 1), "", fs))
PressJ == Idle /\ ui.focused = "packages-panel" /\ Acted("j", Out(move_down(ui), "", fs))
PressK == Idle /\ ui.focused = "packages-panel" /\ Acted("k", Out(move_up(ui), "", fs))
PressEnter == /\ Idle /\ ui.focused = "packages-panel"
              /\ Acted("enter", action_update_package(ui, fs))

\* the bound actions
ActionRefresh == Idle /\ Acted("action_refresh", Out(_refresh_data(ui, fs, venv), "", fs))
ActionCheckOutdated(answer) ==
    Idle /\ Acted("action_check_outdated", Out(_check_all_outdated(ui, answer), "", fs))
ActionInitProject == Idle /\ Acted("action_init_project", action_init_project(ui, fs))
ActionSearchPypi == Idle /\ Acted("action_search_pypi", action_search_pypi(ui, fs))
ActionAddPackage == Idle /\ Acted("action_add_package", action_add_package(ui, fs))
ActionUpdatePackage == Idle /\ Acted("action_update_package", action_update_package(ui, fs))
ActionDeletePackage == Idle /\ Acted("action_delete_package", action_delete_package(ui, fs))
ActionUpdateAllOutdated ==
    Idle /\ Acted("action_update_all_outdated", action_update_all_outdated(ui, fs))

\* ConfirmModal: y dismisses with True, n and Escape with False
ConfirmYes(ran) ==
    /\ Showing("ConfirmModal")
    /\ Acted("ConfirmModal.action_confirm",
             ConfirmDismissed(Pop(ui), fs, venv, Top(ui), TRUE, ran))
ConfirmNo ==
    /\ Showing("ConfirmModal")
    /\ Acted("ConfirmModal.action_cancel",
             ConfirmDismissed(Pop(ui), fs, venv, Top(ui), FALSE, TRUE))

\* SourceSelectModal
SourceMove(step) ==
    /\ Showing("SourceSelectModal")
    /\ Acted("SourceSelectModal.on_key",
             Out(Push(Pop(ui), SourceMoved(Top(ui), step)), "", fs))
SourceConfirm ==
    /\ Showing("SourceSelectModal")
    /\ Top(ui).sel >= 0 /\ Top(ui).sel < Len(Top(ui).pkg.sources)
    /\ Acted("SourceSelectModal.action_confirm",
             Out(_on_source_selected(Pop(ui), Top(ui), Top(ui).pkg.sources[Top(ui).sel + 1].file),
                 "", fs))
SourceDigit(n) ==
    /\ Showing("SourceSelectModal")
    /\ n - 1 < Len(Top(ui).pkg.sources)
    /\ Acted("SourceSelectModal.digit",
             Out(_on_source_selected(Pop(ui), Top(ui), Top(ui).pkg.sources[n].file), "", fs))
SourceCancel ==
    /\ Showing("SourceSelectModal")
    /\ Acted("SourceSelectModal.action_cancel",
             Out(_on_source_selected(Pop(ui), Top(ui), ""), "", fs))

\* AddPackageModal and UpdatePackageModal: a result, or None on Escape
AddSubmit(result, ran) ==
    /\ Showing("AddPackageModal")
    /\ Acted("_on_add_result",
             _do_add(Pop(ui), fs, venv,
                     IF Top(ui).pkg = NoPkg THEN result
                     ELSE <<Top(ui).pkg.name, result[2], result[3], result[4]>>, ran))
AddCancel == Showing("AddPackageModal") /\ Acted("AddPackageModal.cancel", Out(Pop(ui), "", fs))
UpdateSubmit(version, ran) ==
    /\ Showing("UpdatePackageModal")
    /\ Acted("_on_update_result",
             _do_update(Pop(ui), fs, venv, <<Top(ui).pkg.name, version, "==">>, ran))
UpdateCancel ==
    Showing("UpdatePackageModal") /\ Acted("UpdatePackageModal.cancel", Out(Pop(ui), "", fs))

\* the search modal: a name picked, or None on Escape
SearchSubmit(name) ==
    /\ Showing("SearchPyPIModal")
    /\ Acted("_on_search_result", Out(_on_search_result(Pop(ui), name), "", fs))
SearchCancel == Showing("SearchPyPIModal") /\ Acted("SearchPyPIModal.cancel", Out(Pop(ui), "", fs))

NextApp == \/ \E f \in AppTomls : AppWrite(f)
           \/ Mount
           \/ PressTab
           \/ PressShiftTab
           \/ \E n \in 1..4 : PressDigit(n)
           \/ PressJ
           \/ PressK
           \/ PressEnter
           \/ ActionRefresh
           \/ \E answer \in Answers : ActionCheckOutdated(answer)
           \/ ActionInitProject
           \/ ActionSearchPypi
           \/ ActionAddPackage
           \/ ActionUpdatePackage
           \/ ActionDeletePackage
           \/ ActionUpdateAllOutdated
           \/ \E ran \in BOOLEAN : ConfirmYes(ran)
           \/ ConfirmNo
           \/ \E step \in {-1, 1} : SourceMove(step)
           \/ SourceConfirm
           \/ \E n \in 1..3 : SourceDigit(n)
           \/ SourceCancel
           \/ \E result \in AddResults : \E ran \in BOOLEAN : AddSubmit(result, ran)
           \/ AddCancel
           \/ \E version \in UpdateVersions : \E ran \in BOOLEAN : UpdateSubmit(version, ran)
           \/ UpdateCancel
           \/ \E name \in SearchResults : SearchSubmit(name)
           \/ SearchCancel

SpecApp == InitApp /\ [][NextApp]_vars

(***************************************************************************)
(* Claims on the aggregation                                               *)
(***************************************************************************)
Loaded == ret.op = "load_dependencies" /\ ~ret.res.exc
AnyLoaded == ret.op \in {"load_dependencies", "PythonEcosystem.load_dependencies",
                         "JavaScriptEcosystem.load_dependencies",
                         "GoEcosystem.load_dependencies"} /\ ~ret.res.exc
Pkgs == ret.res.out
\* the triples the aggregation pass folded: the parsers' output, then the installed list
Folded == RawTriples(fs).out \o ret.installed
FoldedOf(folded, key) == {i \in 1..Len(folded) : _normalise(folded[i].name) = key}
HasSource(pkg, file, specifier) ==
    \E i \in 1..Len(pkg.sources) : pkg.sources[i] = DepSource(file, specifier)
\* every triple of folded is found, as a source, in the one Package of its key
EachFolded(pkgs, folded) ==
    \A t \in 1..Len(folded) :
       \E i \in 1..Len(pkgs) :
          /\ _normalise(pkgs[i].name) = _normalise(folded[t].name)
          /\ HasSource(pkgs[i], folded[t].label, folded[t].spec)

\* C1: the list returned by load_dependencies holds no two Packages of the same
\* normalised name, and every raw triple is folded into the one Package of its key
C1_OnePackagePerKey ==
    Loaded =>
      /\ \A i, j \in 1..Len(Pkgs) : i # j => _normalise(Pkgs[i].name) # _normalise(Pkgs[j].name)
      /\ EachFolded(Pkgs, Folded)

\* two triples of folded, of different spelling and from different files, share a Package
SharedPackage(pkgs, folded) ==
    \E s, t \in 1..Len(folded) :
       /\ folded[s].name # folded[t].name
       /\ folded[s].label # folded[t].label
       /\ _normalise(folded[s].name) = _normalise(folded[t].name)
       /\ \E i \in 1..Len(pkgs) : /\ HasSource(pkgs[i], folded[s].label, folded[s].spec)
                                  /\ HasSource(pkgs[i], folded[t].label, folded[t].spec)

\* two triples of different spelling, from different files, share one Package
C1_Witness == Loaded /\ SharedPackage(Pkgs, Folded)

\* the sources of a Package are pairwise distinct (file, specifier) pairs
SourcesUnique(pkg) ==
    \A a, b \in 1..Len(pkg.sources) : a # b => pkg.sources[a] # pkg.sources[b]

\* C2: no Package returned by a loader (Python, JavaScript or Go) holds two
\* sources with the same (file, specifier) pair
C2_SourcesUnique == AnyLoaded => \A i \in 1..Len(Pkgs) : SourcesUnique(Pkgs[i])

\* the file a label belongs to: the group labels of pyproject.toml are one file
FileOf(label) == IF StartsWith(label, "pyproject.toml") THEN "pyproject.toml" ELSE label
\* the (label, constraint) declarations folded for a key
DeclsOf(folded, key) == {<<folded[t].label, folded[t].spec>> : t \in FoldedOf(folded, key)}
\* N declarations that come from N distinct files and carry N distinct constraints
OnePerFile(decls) ==
    \A x, y \in decls : x # y => FileOf(x[1]) # FileOf(y[1]) /\ x[2] # y[2]
\* the Package holds exactly the declarations decls as its sources
SourcesAre(pkg, decls) ==
    /\ Len(pkg.sources) = Cardinality(decls)
    /\ \A x \in decls : HasSource(pkg, x[1], x[2])
OneSourcePerFile(pkgs, folded) ==
    \A i \in 1..Len(pkgs) :
       OnePerFile(DeclsOf(folded, _normalise(pkgs[i].name))) =>
          SourcesAre(pkgs[i], DeclsOf(folded, _normalise(pkgs[i].name)))

\* C3: a name declared in N distinct files with N distinct constraints is returned
\* by load_dependencies with exactly N sources, one per file, each with that
\* file's label and constraint
C3_OneSourcePerFile == Loaded => OneSourcePerFile(Pkgs, Folded)

\* some key has n declarations, one per file, out of more than extra + n triples
Declared(pkgs, folded, n, extra) ==
    \E i \in 1..Len(pkgs) :
       /\ OnePerFile(DeclsOf(folded, _normalise(pkgs[i].name)))
       /\ Cardinality(DeclsOf(folded, _normalise(pkgs[i].name))) >= n
       /\ Cardinality(FoldedOf(folded, _normalise(pkgs[i].name))) >=
             extra + Cardinality(DeclsOf(folded, _normalise(pkgs[i].name)))

\* a name declared in two files with two constraints, and one declared twice in one file
C3_Witness == Loaded /\ Declared(Pkgs, Folded, 2, 0) /\ Declared(Pkgs, Folded, 1, 1)

\* the installed triple t is the only appearance of its package: no file declares
\* it, no other installed triple has its key, and uv.lock has no entry for it
OnlyInstalled(raw, t) ==
    /\ \A r \in 1..Len(raw) : _normalise(raw[r].name) # _normalise(ret.installed[t].name)
    /\ \A u \in 1..Len(ret.installed) :
          u # t => _normalise(ret.installed[u].name) # _normalise(ret.installed[t].name)
    /\ LockGet(_parse_lock(fs.uv_lock).out, _normalise(ret.installed[t].name)) = ""
\* the Package of the installed triple t carries its version and the one source "venv"
VenvPackage(pkgs, t) ==
    \E i \in 1..Len(pkgs) :
       /\ _normalise(pkgs[i].name) = _normalise(ret.installed[t].name)
       /\ pkgs[i].installed_version = From(ret.installed[t].spec, 3)
       /\ pkgs[i].sources = <<DepSource("venv", ret.installed[t].spec)>>
InstalledOnly(pkgs, raw) ==
    \A t \in 1..Len(ret.installed) : OnlyInstalled(raw, t) => VenvPackage(pkgs, t)

\* C4: a package that appears only as an installed triple (name, "==V", "venv"),
\* with no lock entry, is returned with installed_version V and the single source "venv"
C4_InstalledOnly == Loaded => InstalledOnly(Pkgs, RawTriples(fs).out)

InstalledNextToDeclared(pkgs, raw) ==
    /\ raw # <<>>
    /\ \E t \in 1..Len(ret.installed) :
          /\ OnlyInstalled(raw, t)
          /\ ret.installed[t].spec = "==2.0"
          /\ \E i \in 1..Len(pkgs) : pkgs[i].installed_version = "2.0"

\* an installed-only package next to a declared one
C4_Witness == Loaded /\ InstalledNextToDeclared(Pkgs, RawTriples(fs).out)

ParserOps == {"_parse_pyproject", "_parse_requirements", "_parse_setup_py",
              "_parse_setup_cfg", "_parse_pipfile"}

\* C5: no source parser raises to its caller; a missing, unreadable or
\* malformed file gives an empty list
C5_ParsersNeverRaise ==
    ret.op \in ParserOps =>
       /\ ~ret.res.exc
       /\ ret.file.st # "ok" => ret.res.out = <<>>

LoadOps == {"load_dependencies", "PythonEcosystem.load_dependencies"}

\* C6: whatever one source file holds, load_dependencies returns, and every triple
\* of every parser that did not fail is in the returned packages
C6_PartialFailure ==
    ret.op \in LoadOps =>
       /\ ~ret.res.exc
       /\ \A k \in 1..Len(ParserResults(fs)) :
             ~ParserResults(fs)[k].exc =>
                \A t \in 1..Len(ParserResults(fs)[k].out) :
                   \E i \in 1..Len(Pkgs) :
                      HasSource(Pkgs[i], ParserResults(fs)[k].out[t].label,
                                ParserResults(fs)[k].out[t].spec)

\* C7: _parse_lock never raises, gives an empty map for a missing or unparseable
\* uv.lock, and load_dependencies is never aborted by uv.lock
C7_LockNeverAborts ==
    ret.op \in LoadOps =>
       /\ ~_parse_lock(fs.uv_lock).exc
       /\ fs.uv_lock.st # "ok" => _parse_lock(fs.uv_lock).out = <<>>
       /\ ~RawTriples(fs).exc => ~ret.res.exc

(***************************************************************************)
(* Claims on removal                                                       *)
(***************************************************************************)
MutatorOps == {"_remove_from_requirements", "_remove_from_setup_cfg", "_remove_from_pipfile"}

\* the file a helper was called on, before the call and after it
TargetSlot == CASE ret.op = "_remove_from_requirements" -> ret.label
                [] ret.op = "_remove_from_setup_cfg" -> "setup_cfg"
                [] ret.op = "_remove_from_pipfile" -> "pipfile"
Before == FileAt(ret.before, TargetSlot)
After == FileAt(fs, TargetSlot)

\* what the parser of the helper's format reads out of a file
EntriesOf(f) == CASE ret.op = "_remove_from_requirements" -> _parse_requirements(f, ret.label)
                  [] ret.op = "_remove_from_setup_cfg" -> _parse_setup_cfg(f)
                  [] ret.op = "_remove_from_pipfile" -> _parse_pipfile(f)
\* the package asked for is an entry of the file
IsEntry(f) ==
    /\ ~EntriesOf(f).exc
    /\ \E t \in 1..Len(EntriesOf(f).out) :
          _normalise(EntriesOf(f).out[t].name) = _normalise(ret.pkg)

\* C8: a helper asked to remove a name that is no entry of the file returns
\* ok=False with a 'not found' message and leaves the file as it was
C8_NotFoundLeavesFile ==
    (ret.op \in MutatorOps /\ ~IsEntry(Before)) =>
       /\ ~ret.exc
       /\ ~ret.ok
       /\ Contains(ret.msg, "not found")
       /\ After = Before

\* the stripped comment lines of a text, in order, and the number of its blank lines
CommentLines(text) == SelectSeq(StripEach(SplitLines(text)), LAMBDA l : StartsWith(l, "#"))
BlankLines(text) == Len(SelectSeq(StripEach(SplitLines(text)), LAMBDA l : l = ""))

\* C9: a helper asked to remove an entry of the file returns ok=True, and the
\* file keeps every other entry, every comment line and every blank line
C9_RemovalKeepsTheRest ==
    (ret.op \in MutatorOps /\ IsEntry(Before)) =>
       /\ ~ret.exc
       /\ ret.ok
       /\ ~EntriesOf(After).exc
       /\ EntriesOf(After).out =
             SelectSeq(EntriesOf(Before).out,
                       LAMBDA tr : _normalise(tr.name) # _normalise(ret.pkg))
       /\ CommentLines(After.text) = CommentLines(Before.text)
       /\ BlankLines(After.text) >= BlankLines(Before.text)

\* the routing table: the action an origin label stands for, "" for a label
\* the table does not list
TableRoute(label) ==
    IF label = "pyproject.toml" THEN "remove"
    ELSE IF StartsWith(label, "pyproject.toml [") THEN "remove_from_group"
    ELSE IF StartsWith(label, "requirements") THEN "_remove_from_requirements"
    ELSE IF label = "setup.cfg" THEN "_remove_from_setup_cfg"
    ELSE IF label = "Pipfile" THEN "_remove_from_pipfile"
    ELSE IF label = "venv" THEN "pip_uninstall"
    ELSE ""

\* the uv command the table's action issues, none for a helper
TableCalls(label, pkg_name) ==
    IF label = "pyproject.toml" THEN <<<<"remove", pkg_name>>>>
    ELSE IF StartsWith(label, "pyproject.toml [")
    THEN <<<<"remove", "--group", AppGroup(label), pkg_name>>>>
    ELSE IF label = "venv" THEN <<<<"pip", "uninstall", pkg_name>>>>
    ELSE <<>>

\* C10: both routers take the action of the routing table, chosen by the origin
\* label alone
C10_RouteByLabelAlone ==
    (ret.op \in {"_do_remove", "PythonEcosystem.remove"} /\ TableRoute(ret.label) # "") =>
       /\ ret.route = TableRoute(ret.label)
       /\ calls = TableCalls(ret.label, ret.pkg)

RouterOps == {"_do_remove", "PythonEcosystem.remove"}
\* the request ran nothing: no file differs and no command was issued
NothingRan == fs = ret.before /\ calls = <<>>

\* C11: a removal whose origin is "setup.py" writes no file and runs no command in
\* either router, and reports a failure telling the user to edit setup.py manually
C11_SetupPyManualOnly ==
    (ret.op \in RouterOps /\ ret.label = "setup.py") =>
       /\ NothingRan
       /\ ~ret.exc /\ ~ret.ok
       /\ Contains(ret.msg, "setup.py") /\ Contains(ret.msg, "manually")

\* C12: a removal whose origin label is in no row of the routing table runs nothing
\* and ends with an "Unknown source" error
C12_UnknownSourceNeverAttempted ==
    (ret.op \in RouterOps /\ TableRoute(ret.label) = "" /\ ret.label # "setup.py") =>
       /\ NothingRan
       /\ ~ret.exc /\ ~ret.ok
       /\ StartsWith(ret.msg, "Unknown source")

\* C13: every call of load_dependencies returns what a first call on the same
\* directory and installed list returns, and a call that follows one made on the same
\* directory and installed list returns the list that one returned
C13_LoadIsRepeatable ==
    ret.op = "load_dependencies" =>
       /\ ret.res = load_dependencies(ret.dir, ret.installed)
       /\ ret.nth = "same" => ret.res = ret.last

\* a second call on the unchanged directory, and a call after the directory changed,
\* each returning packages
C13_Witness ==
    /\ ret.op = "load_dependencies" /\ ~ret.res.exc
    /\ ret.nth = "same"
    /\ Len(ret.res.out) >= 2
    /\ ret.installed # <<>>
    /\ \E i \in 1..Len(ret.res.out) : Len(ret.res.out[i].sources) >= 2

PyLoadOps == {"load_dependencies", "PythonEcosystem.load_dependencies"}
\* no Package of pkgs is followed by one whose lowercased name is smaller
Ascending(pkgs) ==
    \A i, j \in 1..Len(pkgs) : i < j => ~StrLess(Lower(pkgs[j].name), Lower(pkgs[i].name))
\* the triples of raw come in another order than pkgs, and case decides an order
OutOfOrder(pkgs, raw) ==
    /\ \E s, t \in 1..Len(raw) : s < t /\ StrLess(Lower(raw[t].name), Lower(raw[s].name))
    /\ \E i, j \in 1..Len(pkgs) : i < j /\ StrLess(pkgs[j].name, pkgs[i].name)

\* C14: the list returned by load_dependencies is in ascending order of the
\* lowercased display names of its packages
C14_SortedByLowerName == (ret.op \in PyLoadOps /\ ~ret.res.exc) => Ascending(Pkgs)

\* three packages returned, declared in another order, one of them capitalised
C14_Witness ==
    /\ ret.op \in PyLoadOps /\ ~ret.res.exc
    /\ Len(Pkgs) >= 3
    /\ OutOfOrder(Pkgs, RawTriples(fs).out)

\* C15: _normalise is idempotent: applied to its own result it returns that result
C15_NormaliseIdempotent == ret.op = "_normalise" => _normalise(ret.res) = ret.res

\* a name with a capital and a run of separators, which _normalise changes
C15_Witness == ret.op = "_normalise" /\ ret.name = "B_." /\ ret.res = "b-"

\* the lines of a text, as the line-oriented parsers see them
LinesOf(f) == StripEach(SplitLines(f.text))
\* a line that declares nothing: blank, a '#' comment or an option flag of a
\* requirements file; blank or a '//' comment of go.mod
ReqNoEntry(l) == l = "" \/ StartsWith(l, "#") \/ StartsWith(l, "-")
GoNoEntry(l) == l = "" \/ StartsWith(l, "//")
\* a name and nothing else
BareName(l) == l # "" /\ \A i \in 1..Len(l) : Ch(l, i) \in AlnumChars
\* every triple comes from a declaring line, and a bare name is given "*"
ReqFromEntries(out, ls) ==
    /\ \A t \in 1..Len(out) :
          \E i \in 1..Len(ls) :
             /\ ~ReqNoEntry(ls[i])
             /\ _parse_dep_string(ls[i]) = [ok |-> TRUE, name |-> out[t].name, spec |-> out[t].spec]
    /\ \A i \in 1..Len(ls) :
          BareName(ls[i]) => \E t \in 1..Len(out) : out[t].name = ls[i] /\ out[t].spec = "*"
\* every requirement comes from a declaring line
GoFromEntries(out, ls) ==
    \A t \in 1..Len(out) :
       \E i \in 1..Len(ls) :
          /\ ~GoNoEntry(ls[i])
          /\ Len(SplitWs(GoBody(ls[i]))) >= 2
          /\ SplitWs(GoBody(ls[i]))[1] = out[t].module
          /\ SplitWs(GoBody(ls[i]))[2] = out[t].version

\* C16: _parse_requirements emits nothing from a blank line, a '#' line or a '-'
\* line and reports a bare name with "*"; _parse_go_mod emits nothing from a blank
\* line or a '//' comment line, inside or outside a require block
C16_NoEntryFromCommentLines ==
    /\ (ret.op = "_parse_requirements" /\ ret.file.st = "ok") =>
          ~ret.res.exc /\ ReqFromEntries(ret.res.out, LinesOf(ret.file))
    /\ (ret.op = "_parse_go_mod" /\ ret.file.st = "ok") =>
          ~ret.res.exc /\ GoFromEntries(ret.res.out, LinesOf(ret.file))


\* the "venv" triples of a key that carry a version, in the order they are folded
VenvVersions(folded, key) ==
    SelectSeq(folded, LAMBDA tr : /\ _normalise(tr.name) = key /\ tr.label = "venv"
                                  /\ StartsWith(tr.spec, "==") /\ From(tr.spec, 3) # "")
\* the first write: the lock entry, else the first installed version, else nothing
FirstWrite(folded, lock_map, key) ==
    IF LockGet(lock_map, key) # "" THEN LockGet(lock_map, key)
    ELSE IF VenvVersions(folded, key) = <<>> THEN ""
    ELSE From(VenvVersions(folded, key)[1].spec, 3)
FirstWriteWins(pkgs, folded, lock_map) ==
    \A i \in 1..Len(pkgs) :
        pkgs[i].installed_version = FirstWrite(folded, lock_map, _normalise(pkgs[i].name))

\* C20: an installed_version that is set during the pass is never changed by a later
\* triple: the lock entry wins over the installed list, and of two "venv" triples of
\* one package the first wins
C20_FirstWriteWins == Loaded => FirstWriteWins(Pkgs, Folded, _parse_lock(fs.uv_lock).out)
TwoInstalled(pkgs, folded) ==
    \E i \in 1..Len(pkgs) :
        /\ Len(VenvVersions(folded, _normalise(pkgs[i].name))) = 2
        /\ VenvVersions(folded, _normalise(pkgs[i].name))[1].spec = "==2.0"
        /\ VenvVersions(folded, _normalise(pkgs[i].name))[2].spec = "==3.0"
        /\ pkgs[i].installed_version = "2.0"
C20_Witness == Loaded /\ fs.uv_lock = Missing /\ TwoInstalled(Pkgs, Folded)

(***************************************************************************)
(* Claims on the application                                               *)
(***************************************************************************)
\* the four actions, and Enter on the packages panel, which runs the update action
GuardedActions == {"action_add_package", "action_update_package", "action_delete_package",
                   "action_update_all_outdated", "enter"}
Blocked == ui.screens = <<>> /\ calls = <<>> /\ ret.started = <<>> /\ ~ret.wrote

\* C17: while no pyproject.toml exists, the add, update, delete and update-all
\* actions open no modal, run no package-manager command and call no mutator,
\* whatever package is selected
C17_BlockedWithoutToml == (ret.op \in GuardedActions /\ ~ret.toml) => Blocked
C17_Witness ==
    /\ ret.op = "action_delete_package" /\ ~ret.toml
    /\ ret.pkg.name = "cd" /\ Len(ret.pkg.sources) > 1
    /\ ret.note = NoToml

\* C18: Tab moves focus from the Packages panel to the Sources panel and from the
\* Sources panel to the Packages panel, and never to the Status panel
C18_TabSkipsStatus ==
    ret.op = "tab" =>
        /\ ret.focused = "packages-panel" => ui.focused = "sources-panel"
        /\ ret.focused = "sources-panel" => ui.focused = "packages-panel"
        /\ ui.focused # "status-panel"

RemoveConfirm(m, pkg, source_file) ==
    m.kind = "ConfirmModal" /\ m.then = "remove" /\ m.pkg = pkg /\ m.source = source_file
SourceFiles(pkg) == {pkg.sources[i].file : i \in 1..Len(pkg.sources)}
StartedRemovals ==
    IF ret = NoRet THEN {}
    ELSE {i \in 1..Len(ret.started) : ret.started[i].worker = "_do_remove"}
\* a removal is started only by a positive answer to the ConfirmModal for it
OnlyAfterYes ==
    \A i \in StartedRemovals :
        /\ ret.op = "ConfirmModal.action_confirm"
        /\ ret.screen.kind = "ConfirmModal" /\ ret.screen.then = "remove"
        /\ ret.screen.pkg.name = ret.started[i].pkg
        /\ ret.screen.source = ret.started[i].source
\* what the delete action shows for the selected package
DeleteShows ==
    (ret.op = "action_delete_package" /\ ret.toml /\ ret.pkg # NoPkg) =>
        /\ ret.started = <<>>
        /\ Len(ui.screens) = 1
        /\ Len(ret.pkg.sources) > 1 =>
               Top(ui).kind = "SourceSelectModal" /\ Top(ui).pkg = ret.pkg
        /\ Len(ret.pkg.sources) = 1 =>
               RemoveConfirm(Top(ui), ret.pkg, ret.pkg.sources[1].file)
\* the ConfirmModal for a package with several sources follows a choice of one of them
ConfirmAfterChoice ==
    (ret # NoRet /\ ui.screens # <<>> /\ Top(ui).kind = "ConfirmModal"
       /\ Top(ui).then = "remove" /\ Len(Top(ui).pkg.sources) > 1) =>
        /\ ret.op \in {"SourceSelectModal.action_confirm", "SourceSelectModal.digit"}
        /\ ret.screen.kind = "SourceSelectModal" /\ ret.screen.pkg = Top(ui).pkg
        /\ Top(ui).source \in SourceFiles(Top(ui).pkg)
CancelStartsNothing ==
    (ret.op \in {"ConfirmModal.action_cancel", "SourceSelectModal.action_cancel"}) =>
        ret.started = <<>> /\ calls = <<>> /\ ~ret.wrote /\ ui.screens = <<>>

\* C19: _do_remove(P, S) starts only after the ConfirmModal for P and S was answered
\* with yes; a package with several sources gets a SourceSelectModal first and the
\* ConfirmModal after a source was chosen, a package with one source the ConfirmModal
\* at once; cancelling either modal starts no removal
C19_RemovalOnlyAfterConfirm ==
    OnlyAfterYes /\ DeleteShows /\ ConfirmAfterChoice /\ CancelStartsNothing
C19_Witness ==
    /\ ret.op = "ConfirmModal.action_confirm"
    /\ Len(ret.screen.pkg.sources) > 1
    /\ ret.started = <<[worker |-> "_do_remove", pkg |-> "cd", source |-> "requirements.txt"]>>
    /\ ret.wrote

(***************************************************************************)
(* Claims on what a removal leaves in the file                             *)
(***************************************************************************)
LineOps == {"_remove_from_requirements", "_remove_from_pipfile"}
\* a line of the file that declares the package asked for, as the helper reads it
Declares(line) ==
    IF ret.op = "_remove_from_pipfile" THEN PipLineNames(line, _normalise(ret.pkg))
    ELSE ReqLineNames(line, _normalise(ret.pkg))
\* ls without its k-th element
Without(ls, k) == SubSeq(ls, 1, k - 1) \o SubSeq(ls, k + 1, Len(ls))
FirstExcised(before, after) ==
    \E k \in 1..Len(before) :
        /\ Declares(before[k])
        /\ \A j \in 1..(k - 1) : ~Declares(before[j])
        /\ after = Without(before, k)

\* C21: a successful removal from a requirements file or a Pipfile takes out the
\* first line that declares the package and no other line
C21_OnlyFirstMatchRemoved ==
    (ret.op \in LineOps /\ ~ret.exc /\ ret.ok) =>
        FirstExcised(SplitLines(Before.text), SplitLines(After.text))

\* a line that names the package asked for, in the helper's format
NamesPkg(line) ==
    IF ret.op = "_remove_from_setup_cfg" THEN Names(Strip(line), _normalise(ret.pkg))
    ELSE Declares(line)
Retained(before) == SelectSeq(before, LAMBDA line : ~NamesPkg(line))

\* C22: a successful removal writes the whole file back as the retained lines
\* joined by newlines, with one newline at the end
C22_RetainedLinesAndOneNewline ==
    (ret.op \in MutatorOps /\ ~ret.exc /\ ret.ok) =>
        After.text = JoinLines(Retained(SplitLines(Before.text))) \o "\n"

\* the parser of the format reports a triple under exactly the name asked for
Reported(f) ==
    /\ ~EntriesOf(f).exc
    /\ \E t \in 1..Len(EntriesOf(f).out) : EntriesOf(f).out[t].name = ret.pkg
\* after a removal that returned ok=True the parser finds the package no more
GoneAfterRemoval == (~ret.exc /\ ret.ok) => (~EntriesOf(After).exc /\ ~IsEntry(After))
\* what the parser reports, the helper removes
ReportedIsRemovable == Reported(Before) => (~ret.exc /\ ret.ok)

\* C28: parser and mutator of a format agree: a package removed with ok=True is
\* not parsed from the file again, and every name the parser reports from a file
\* is removed with ok=True when the mutator is called with it
C28_ParseAndRemoveAgree ==
    ret.op \in MutatorOps => (GoneAfterRemoval /\ ReportedIsRemovable)

\* the lines of a Pipfile that stand outside [packages] and [dev-packages]: table
\* is the header the lines from k on stand under
PackageTables == {"[packages]", "[dev-packages]"}
IsHeader(line) == StartsWith(Strip(line), "[")
RECURSIVE OtherLines(_, _, _)
OtherLines(lines, k, table) ==
    IF k > Len(lines) THEN <<>>
    ELSE IF IsHeader(lines[k]) THEN <<lines[k]>> \o OtherLines(lines, k + 1, Strip(lines[k]))
    ELSE IF table \in PackageTables THEN OtherLines(lines, k + 1, table)
    ELSE <<lines[k]>> \o OtherLines(lines, k + 1, table)

\* C26: _remove_from_pipfile deletes no line of a table other than [packages] and
\* [dev-packages], whatever name it is called with
C26_PipfileOtherTablesKept ==
    (ret.op = "_remove_from_pipfile" /\ ~ret.exc) =>
        OtherLines(SplitLines(After.text), 1, "") = OtherLines(SplitLines(Before.text), 1, "")

(***************************************************************************)
(* Claims on the delegated routes                                          *)
(***************************************************************************)
DelegatedRoutes == {"remove", "remove_from_group", "pip_uninstall"}

KeysOf(t) == IF IsTable(t) THEN {t.v[i].k : i \in 1..Len(t.v)} ELSE {}
GroupKeys(f) ==
    KeysOf(Get(Get(f.data, "project", T(<<>>)), "optional-dependencies", T(<<>>)))
      \cup KeysOf(Get(f.data, "dependency-groups", T(<<>>)))

\* C23: a dependency found under group g carries the label "pyproject.toml [g]",
\* and a removal routed on that label runs the group removal of the package
\* manager with the group g
C23_GroupRoundTrip ==
    (ret.op \in RouterOps /\ GroupKeys(ret.before.pyproject) # {}) =>
        \E g \in GroupKeys(ret.before.pyproject) :
            /\ ret.label = "pyproject.toml [" \o g \o "]"
            /\ calls = <<<<"remove", "--group", g, ret.pkg>>>>

(***************************************************************************)
(* Claims on the JavaScript lock file                                      *)
(***************************************************************************)
\* the entry of the "packages" map of package-lock.json for a dependency name
NodeEntry(f, name) == Get(Get(f.data, "packages", T(<<>>)), "node_modules/" \o name, T(<<>>))
LockedVersion(f, name) == Get(NodeEntry(f, name), "version", S(""))
IsLocked(f, name) ==
    /\ f.st = "ok" /\ IsTable(f.data) /\ IsTable(Get(f.data, "packages", T(<<>>)))
    /\ IsTable(NodeEntry(f, name))
    /\ IsStr(LockedVersion(f, name)) /\ LockedVersion(f, name).v # ""
JsLoaded == ret.op = "JavaScriptEcosystem.load_dependencies" /\ ~ret.res.exc
LockedAsInstalled(pkgs, f) ==
    \A i \in 1..Len(pkgs) :
        IsLocked(f, pkgs[i].name) => pkgs[i].installed_version = LockedVersion(f, pkgs[i].name)

\* C29: a dependency of package.json that package-lock.json lists under
\* "node_modules/<name>" with a version is returned with that version as its
\* installed_version, for plain and for scoped names
C29_LockedVersionInstalled == JsLoaded => LockedAsInstalled(ret.res.out, fs.package_lock)

(***************************************************************************)
(* The key handler on_key and the two-key sequence "gg"                    *)
(***************************************************************************)
\* _GG_TIMEOUT = 0.5, in quarters of a second, and how far time.monotonic() runs
_GG_TIMEOUT == 2
MaxClock == 3

\* the application with pyproject.toml and requirements.txt loaded
KeysDir == WithFile(AppDir, "pyproject", Doc(Project(<<KV("dependencies", Deps(<<"cd">>))>>)))
KeysUi(u) ==
    [mounted |-> u.mounted, panel |-> u.panel, focused |-> u.focused,
     packages |-> u.packages, selected |-> u.selected, latest |-> u.latest,
     screens |-> u.screens, _all_packages |-> u.packages, source_sel |-> 0,
     _pending_g |-> FALSE, _pending_g_time |-> 0, monotonic |-> 0]

\* _collect_sources: the sorted file names of all packages
RECURSIVE SortedStrs(_)
SortedStrs(strs) ==
    IF strs = {} THEN <<>>
    ELSE <<CHOOSE x \in strs : \A y \in strs \ {x} : StrLess(x, y)>>
         \o SortedStrs(strs \ {CHOOSE x \in strs : \A y \in strs \ {x} : StrLess(x, y)})
_collect_sources(pkgs) ==
    SortedStrs(UNION {{pkgs[i].sources[j].file : j \in 1..Len(pkgs[i].sources)} :
                      i \in 1..Len(pkgs)})
\* SourcesPanel._sources and get_selected_source ("" stands for None)
_sources(u) == <<"All Sources">> \o _collect_sources(u._all_packages)
get_selected_source(u) == IF u.source_sel = 0 THEN "" ELSE _sources(u)[u.source_sel + 1]
\* PackagesPanel._apply_filters for the source filter
ListedIn(p, file) == \E j \in 1..Len(p.sources) : p.sources[j].file = file
_apply_filters(pkgs, source) ==
    IF source = "" THEN pkgs ELSE SelectSeq(pkgs, LAMBDA p : ListedIn(p, source))
\* _on_source_selection_changed
_on_source_selection_changed(u) ==
    set_packages(u, _apply_filters(u._all_packages, get_selected_source(u)))

\* move_down, move_up, jump_bottom and jump_top of SourcesPanel
SourcesPanel_moved(u, key) ==
    CASE key = "j" -> [u EXCEPT !.source_sel = IF @ < Len(_sources(u)) - 1 THEN @ + 1 ELSE @]
      [] key = "k" -> [u EXCEPT !.source_sel = IF @ > 0 THEN @ - 1 ELSE @]
      [] key = "G" -> [u EXCEPT !.source_sel = Len(_sources(u)) - 1]
      [] OTHER -> [u EXCEPT !.source_sel = 0]
\* jump_bottom and jump_top of PackagesPanel
jump_bottom(u) == IF u.packages # <<>> THEN [u EXCEPT !.selected = Len(u.packages) - 1] ELSE u
jump_top(u) == IF u.packages # <<>> THEN [u EXCEPT !.selected = 0] ELSE u
PackagesPanel_moved(u, key) ==
    CASE key = "j" -> move_down(u)
      [] key = "k" -> move_up(u)
      [] key = "G" -> jump_bottom(u)
      [] OTHER -> jump_top(u)
\* the Vim navigation of the focused panel: the status panel has none
Navigated(u, key) ==
    IF u.focused = "sources-panel" THEN _on_source_selection_changed(SourcesPanel_moved(u, key))
    ELSE IF u.focused = "packages-panel" THEN PackagesPanel_moved(u, key)
    ELSE u

\* the second "g" of "gg" arrived in time
GPending(u, now) == u._pending_g /\ now - u._pending_g_time < _GG_TIMEOUT
\* "Any other key resets the g-pending state"
GReset(u) == [u EXCEPT !._pending_g = FALSE]
PanelOf == [k \in {"1", "2", "3", "4"} |->
               CASE k = "1" -> 0 [] k = "2" -> 1 [] k = "3" -> 2 [] OTHER -> 3]

\* on_key, branch by branch; every handled key returns before the reset at the end
on_key(u, key, now, d) ==
    CASE key = "tab" -> _cycle_panel(u, 1)
      [] key = "shift+tab" -> _cycle_panel(u, -1)
      [] key \in DOMAIN PanelOf -> _jump_to_panel(u, PanelOf[key])
      [] key \in {"j", "k", "G"} -> Navigated(u, key)
      [] key = "g" -> IF GPending(u, now) THEN Navigated(GReset(u), key)
                      ELSE [u EXCEPT !._pending_g = TRUE, !._pending_g_time = now]
      [] key = "enter" /\ u.focused = "sources-panel" -> _on_source_selection_changed(u)
      [] key = "enter" /\ u.focused = "packages-panel" -> action_update_package(u, d).ui
      [] OTHER -> GReset(u)
\* the handler called jump_top
Jumped(u, key, now) ==
    key = "g" /\ GPending(u, now) /\ u.focused \in {"sources-panel", "packages-panel"}

(***************************************************************************)
(* SpecKeys: keys pressed while the clock runs                             *)
(***************************************************************************)
Keys == {"tab", "j", "g", "enter", "x"}
NoKey == [op |-> "on_key", key |-> "", prev |-> "", gap |-> 0, idle |-> 0, jumped |-> FALSE]
InitKeys == /\ fs = KeysDir
            /\ venv = AppVenv
            /\ uv = TRUE
            /\ calls = <<>>
            /\ ret = NoKey
            /\ ui = KeysUi(on_mount(NoUi, KeysDir, AppVenv))

\* a key reaches on_key while no modal screen is open; ret keeps the key, the
\* key before it and the time that passed between the two
KeyPress(key) ==
    /\ Idle
    /\ ui' = on_key(ui, key, ui.monotonic, fs)
    /\ ret' = [op |-> "on_key", key |-> key, prev |-> ret.key, gap |-> ret.idle,
               idle |-> 0, jumped |-> Jumped(ui, key, ui.monotonic)]
    /\ UNCHANGED <<fs, venv, uv, calls>>
\* Escape closes the update modal
KeyEscape ==
    /\ Showing("UpdatePackageModal")
    /\ ui' = Pop(ui)
    /\ UNCHANGED <<fs, venv, uv, calls, ret>>
\* a quarter of a second passes
Tick ==
    /\ ui.monotonic < MaxClock
    /\ ui' = [ui EXCEPT !.monotonic = @ + 1]
    /\ ret' = [ret EXCEPT !.idle = IF @ < _GG_TIMEOUT THEN @ + 1 ELSE @]
    /\ UNCHANGED <<fs, venv, uv, calls>>

NextKeys == \/ \E key \in Keys : KeyPress(key)
            \/ KeyEscape
            \/ Tick
SpecKeys == InitKeys /\ [][NextKeys]_vars

\* C24: jump_top is called only for a "g" whose preceding key was also "g",
\* pressed less than _GG_TIMEOUT before; no other key in between lets it fire
C24_JumpOnlyAfterGG ==
    (ret.op = "on_key" /\ ret.jumped) =>
        (ret.key = "g" /\ ret.prev = "g" /\ ret.gap < _GG_TIMEOUT)

(***************************************************************************)
(* The details panel and the worker _fetch_and_show_requires               *)
(***************************************************************************)
\* no worker of the group "requires" is running
NoFetch == [pkg |-> NoPkg, stage |-> "none"]
\* DetailsPanel.show_package(pkg, ...): the package shown and the name whose
\* fetched requirements and metadata are shown with it ("" when none are)
Shown(pkg, requires_of) == [pkg |-> pkg, requires_of |-> requires_of]
DetailsUi(u) ==
    [mounted |-> u.mounted, panel |-> u.panel, focused |-> u.focused,
     packages |-> u.packages, selected |-> u.selected, latest |-> u.latest,
     screens |-> u.screens, details |-> Shown(NoPkg, ""), fetch |-> NoFetch,
     refreshing |-> FALSE]

\* _update_details_for_selection: the plain details at once, and for a package
\* a new fetch, which cancels the one in flight (exclusive, group "requires")
_update_details_for_selection(u) ==
    [u EXCEPT !.details = Shown(_selected_package(u), ""),
              !.fetch = IF _selected_package(u) = NoPkg THEN @
                        ELSE [pkg |-> _selected_package(u), stage |-> "requires"]]

\* "Re-check the selection hasn't changed while we were fetching"
StillSelected_always(current, pkg) == TRUE
StillSelected(current, pkg) ==
    current # NoPkg /\ _normalise(current.name) = _normalise(pkg.name)
\* _fetch_and_show_requires after its two awaits
_fetch_and_show_requires(u) ==
    IF StillSelected(_selected_package(u), u.fetch.pkg)
    THEN [u EXCEPT !.details = Shown(u.fetch.pkg, u.fetch.pkg.name), !.fetch = NoFetch]
    ELSE [u EXCEPT !.fetch = NoFetch]

(***************************************************************************)
(* SpecDetails: the selection moves and the list is refreshed while a      *)
(* fetch is in flight                                                      *)
(***************************************************************************)
DetailsTexts == {Text("cd==1\nzz\n"), Text("ab\nzz\n"), Text("Zz\n")}
DetailsVenv == [st |-> "ok", pkgs |-> <<>>]
InitDetails == /\ fs = KeysDir
               /\ venv = DetailsVenv
               /\ uv = TRUE
               /\ calls = <<>>
               /\ ret = NoRet
               /\ ui = _update_details_for_selection(DetailsUi(on_mount(NoUi, KeysDir, DetailsVenv)))

\* requirements.txt is edited while the application runs
DetailsWrite(f) ==
    /\ fs' = WithFile(fs, "requirements.txt", f)
    /\ UNCHANGED <<venv, uv, calls, ret, ui>>
\* j and k on the packages panel
DetailsJ ==
    /\ ui' = _update_details_for_selection(move_down(ui))
    /\ ret' = [op |-> "j"]
    /\ UNCHANGED <<fs, venv, uv, calls>>
DetailsK ==
    /\ ui' = _update_details_for_selection(move_up(ui))
    /\ ret' = [op |-> "k"]
    /\ UNCHANGED <<fs, venv, uv, calls>>
\* _refresh_data up to "await self._update_status_panel()": the list is replaced
RefreshSet ==
    /\ ui' = [_refresh_data(ui, fs, venv) EXCEPT !.refreshing = TRUE]
    /\ ret' = [op |-> "_refresh_data"]
    /\ UNCHANGED <<fs, venv, uv, calls>>
\* _refresh_data after that await
RefreshDone ==
    /\ ui.refreshing
    /\ ui' = _update_details_for_selection([ui EXCEPT !.refreshing = FALSE])
    /\ ret' = [op |-> "_refresh_data"]
    /\ UNCHANGED <<fs, venv, uv, calls>>
\* "requires = await _get_package_requires(pkg.name)" returns
FetchedRequires ==
    /\ ui.fetch.stage = "requires"
    /\ ui' = [ui EXCEPT !.fetch.stage = "metadata"]
    /\ ret' = [op |-> "_get_package_requires"]
    /\ UNCHANGED <<fs, venv, uv, calls>>
\* "meta = await self._fetch_pypi_metadata(pkg.name)" returns and the worker ends
FetchedMetadata ==
    /\ ui.fetch.stage = "metadata"
    /\ ui' = _fetch_and_show_requires(ui)
    /\ ret' = [op |-> "_fetch_and_show_requires", pkg |-> ui.fetch.pkg,
               current |-> _selected_package(ui),
               shown |-> ui'.details.requires_of # ""]
    /\ UNCHANGED <<fs, venv, uv, calls>>

NextDetails == \/ \E f \in DetailsTexts : DetailsWrite(f)
               \/ DetailsJ
               \/ DetailsK
               \/ RefreshSet
               \/ RefreshDone
               \/ FetchedRequires
               \/ FetchedMetadata
SpecDetails == InitDetails /\ [][NextDetails]_vars

\* the fetch ended while another package, or none, was selected
SelectionMoved ==
    /\ ret.op = "_fetch_and_show_requires"
    /\ (ret.current = NoPkg \/ _normalise(ret.current.name) # _normalise(ret.pkg.name))
\* C27: when a fetch ends, the details panel takes the fetched requirements and
\* metadata only if the package then selected has the normalised name of the
\* package they were fetched for; otherwise the panel stays as it was
C27_StaleFetchDiscarded ==
    /\ SelectionMoved => ~ret.shown
    /\ (ret.op = "_fetch_and_show_requires" /\ ui.details.requires_of # "") =>
           /\ _selected_package(ui) # NoPkg
           /\ _normalise(ui.details.requires_of) = _normalise(_selected_package(ui).name)
C27_Witness == SelectionMoved /\ ret.current # NoPkg /\ ui.details.requires_of = ""

(***************************************************************************)
(* The workers of the group "manage", the uv processes they wait for and   *)
(* the refresh they start                                                  *)
(***************************************************************************)
\* how many uv processes run at once
MaxProcs == 2
\* no worker of the group "manage" is waiting for its command
NoWorker == [worker |-> "", pkg |-> "", source |-> "", proc |-> 0]
WorkUi(u) ==
    [mounted |-> u.mounted, panel |-> u.panel, focused |-> u.focused,
     packages |-> u.packages, selected |-> u.selected, latest |-> u.latest,
     screens |-> u.screens, manage |-> NoWorker, procs |-> {}, refresh |-> "none"]

\* a run of a worker that ended: whether it called a helper or a command, and
\* whether it reached "self._refresh_data()"
Ended(worker, called, refreshed) ==
    [worker |-> worker, called |-> called, refreshed |-> refreshed]
\* @work(exclusive=True, group="manage"): the worker that waits for its command
\* is cancelled at that await; the process it started runs on
Cancelled(u) == IF u.manage = NoWorker THEN {} ELSE {Ended(u.manage.worker, TRUE, FALSE)}
FreeProc(u) == CHOOSE id \in 1..MaxProcs : \A p \in u.procs : p.id # id
HasFreeProc(u) == \E id \in 1..MaxProcs : \A p \in u.procs : p.id # id

\* "ok, output = await self.pkg_mgr. ..." in _do_add, _do_update and _do_remove:
\* PackageManager._run starts the process and the worker waits
Awaiting(u, worker, pkg_name, source_file, args) ==
    [u EXCEPT !.manage = [worker |-> worker, pkg |-> pkg_name, source |-> source_file,
                          proc |-> FreeProc(u)],
              !.procs = @ \cup {[id |-> FreeProc(u), args |-> args]}]
\* "self._refresh_data()": @work(exclusive=True, group="refresh")
Refreshing(u) == [u EXCEPT !.manage = NoWorker, !.refresh = "listing"]
\* a run of _do_remove through one of the helpers, or through no branch at all
Helped(u, r) ==
    IF r.exc \/ r.route \in {"manual", "unknown"} THEN [u EXCEPT !.manage = NoWorker]
    ELSE Refreshing(u)
HelpedRun(r) ==
    Ended("_do_remove", r.route \notin {"manual", "unknown"},
          ~r.exc /\ r.route \notin {"manual", "unknown"})

(***************************************************************************)
(* SpecWork: additions, updates and removals started one after another     *)
(***************************************************************************)
WorkTomls == {Doc(Project(<<KV("dependencies", Deps(<<"cd">>))>>)),
              Doc(Project(<<KV("dependencies", Deps(<<"cd", "zz">>))>>)),
              Doc(Project(<<KV("dependencies", Deps(<<>>))>>))}
NoEnded == [op |-> "workers", ended |-> {}]
InitWork == /\ fs = KeysDir
            /\ venv = AppVenv
            /\ uv = TRUE
            /\ calls = <<>>
            /\ ret = NoEnded
            /\ ui = WorkUi(on_mount(NoUi, KeysDir, AppVenv))

\* _on_add_result(result) starts _do_add
StartAdd(result) ==
    /\ HasFreeProc(ui)
    /\ ui' = Awaiting(ui, "_do_add", result[1], "",
                      AddArgs(result[1], result[2], result[3], result[4]))
    /\ ret' = [op |-> "workers", ended |-> Cancelled(ui)]
    /\ UNCHANGED <<fs, venv, uv, calls>>
\* _on_update_result(result) starts _do_update
StartUpdate(i, version) ==
    /\ HasFreeProc(ui)
    /\ i \in 1..Len(ui.packages)
    /\ ui' = Awaiting(ui, "_do_update", ui.packages[i].name, "",
                      AddArgs(ui.packages[i].name, version, "==", ""))
    /\ ret' = [op |-> "workers", ended |-> Cancelled(ui)]
    /\ UNCHANGED <<fs, venv, uv, calls>>
\* _on_confirm(True) starts _do_remove(pkg, source_file) for a package of the list
StartRemoveCommand(pkg, source_file) ==
    /\ AppRoute(source_file) \in DelegatedRoutes
    /\ HasFreeProc(ui)
    /\ ui' = Awaiting(ui, "_do_remove", pkg.name, source_file,
                      _do_remove(fs, pkg.name, source_file, TRUE).calls[1])
    /\ ret' = [op |-> "workers", ended |-> Cancelled(ui)]
    /\ UNCHANGED <<fs, venv, uv, calls>>
StartRemoveHelper(pkg, source_file) ==
    /\ AppRoute(source_file) \notin DelegatedRoutes
    /\ ui' = Helped(ui, _do_remove(fs, pkg.name, source_file, TRUE))
    /\ fs' = _do_remove(fs, pkg.name, source_file, TRUE).fs
    /\ ret' = [op |-> "workers",
               ended |-> Cancelled(ui) \cup
                         {HelpedRun(_do_remove(fs, pkg.name, source_file, TRUE))}]
    /\ UNCHANGED <<venv, uv, calls>>
StartRemove(i, j) ==
    /\ i \in 1..Len(ui.packages)
    /\ j \in 1..Len(ui.packages[i].sources)
    /\ \/ StartRemoveCommand(ui.packages[i], ui.packages[i].sources[j].file)
       \/ StartRemoveHelper(ui.packages[i], ui.packages[i].sources[j].file)
\* a uv process ends, having rewritten pyproject.toml if it ended well; the
\* worker that waits for it notifies and starts the refresh
ProcExit(p, ran, f) ==
    /\ p \in ui.procs
    /\ fs' = IF ran THEN WithFile(fs, "pyproject", f) ELSE fs
    /\ ui' = IF ui.manage.proc = p.id
             THEN [Refreshing(ui) EXCEPT !.procs = @ \ {p}]
             ELSE [ui EXCEPT !.procs = @ \ {p}]
    /\ ret' = [op |-> "workers",
               ended |-> IF ui.manage.proc = p.id
                         THEN {Ended(ui.manage.worker, TRUE, TRUE)} ELSE {}]
    /\ UNCHANGED <<venv, uv, calls>>
\* _refresh_data after "await _parse_installed": the files are read and shown
RefreshRead ==
    /\ ui.refresh = "listing"
    /\ ui' = [_refresh_data(ui, fs, venv) EXCEPT !.refresh = "none"]
    /\ ret' = NoEnded
    /\ UNCHANGED <<fs, venv, uv, calls>>

NextWork == \/ \E result \in AddResults : StartAdd(result)
            \/ \E i \in 1..2, version \in UpdateVersions : StartUpdate(i, version)
            \/ \E i \in 1..2, j \in 1..3 : StartRemove(i, j)
            \/ \E p \in ui.procs, ran \in BOOLEAN, f \in WorkTomls : ProcExit(p, ran, f)
            \/ RefreshRead
SpecWork == InitWork /\ [][NextWork]_vars

\* every ended run of _do_remove that called a helper or a command reached the refresh
RemoveRunsRefresh ==
    \A w \in ret.ended : (w.worker = "_do_remove" /\ w.called) => w.refreshed
\* no worker is running and no process is left
Quiet == ui.manage = NoWorker /\ ui.procs = {} /\ ui.refresh = "none"
\* with nothing left running, the list shown is the aggregation of the files
QuietShowsDisk ==
    Quiet => ui.packages = LoadedOr(load_dependencies(fs, _parse_installed(venv)))
\* C25: a run of _do_remove that called a helper or a uv command starts a
\* refresh, and once every worker has ended the list shown is the aggregation
\* of the files then on disk, however the operations were started
C25_RefreshAfterEveryRemoval == RemoveRunsRefresh /\ QuietShowsDisk
====
